---- MODULE Spec2Model ----
(***************************************************************************)
(* Secure Simple Pairing (Bluetooth Core, Vol 2, Part C, 4.2.7) as         *)
(* implemented by tools/rootcanal/lmp/src/procedure/secure_simple_pairing. *)
(*                                                                         *)
(* Two machines are modelled: "I" runs initiate(), "R" runs respond().     *)
(* Every action is one resumption of a machine: it consumes the input the  *)
(* machine is suspended on (an LMP packet or an HCI command) and runs the  *)
(* synchronous code up to the next await.                                  *)
(***************************************************************************)
EXTENDS Integers, Sequences, FiniteSets, TLC

VARIABLES
    st,     \* st[m]: the locals, the program position and the Context logs of machine m
    chan,   \* chan[m]: LMP packets in flight towards machine m (joint runs)
    wire,   \* every LMP packet sent by a machine, in global send order
    mode,   \* "joint": I against R; "initiator"/"responder": one machine against any peer
    sc      \* features::supported_on_both_page1(SecureConnectionsHostSupport)

vars == <<st, chan, wire, mode, sc>>

Machines == {"I", "R"}

Peer(m) == IF m = "I" THEN "R" ELSE "I"

(***************************************************************************)
(* Bounds of the model.                                                    *)
(***************************************************************************)
\* SendKeypressNotification commands the host sends during one passkey request.
MaxKeypress == 1
\* Public keys sent in the key-transfer specification have bytes (seed + i) % 256.
MaxSeed == 3

(***************************************************************************)
(* Program constants.                                                      *)
(***************************************************************************)
P192_PUBLIC_KEY_SIZE == 48
P256_PUBLIC_KEY_SIZE == 64
COMMITMENT_VALUE_SIZE == 16
NONCE_SIZE == 16
CONFIRMATION_VALUE_SIZE == 16
PASSKEY_ENTRY_REPEAT_NUMBER == 20
\* public_key.as_slice().chunks(16)
CHUNK_SIZE == 16

Zeros(n) == [i \in 1..n |-> 0]

(***************************************************************************)
(* hci enums and their u8 encodings (to_u8 / from_u8).                     *)
(***************************************************************************)
IoCapability == {"DisplayOnly", "DisplayYesNo", "KeyboardOnly", "NoInputNoOutput"}

OobDataPresent == {"NotPresent", "P192Present", "P256Present", "P192AndP256Present"}

AuthenticationRequirements ==
    {"NoBonding", "NoBondingMitmProtection", "DedicatedBonding",
     "DedicatedBondingMitmProtection", "GeneralBonding", "GeneralBondingMitmProtection"}

IoCapabilityCodes ==
    <<"DisplayOnly", "DisplayYesNo", "KeyboardOnly", "NoInputNoOutput">>

OobDataPresentCodes ==
    <<"NotPresent", "P192Present", "P256Present", "P192AndP256Present">>

AuthenticationRequirementsCodes ==
    <<"NoBonding", "NoBondingMitmProtection", "DedicatedBonding",
      "DedicatedBondingMitmProtection", "GeneralBonding", "GeneralBondingMitmProtection">>

\* to_u8().unwrap(): the discriminant of an enum value in table `codes`.
to_u8(codes, v) == (CHOOSE i \in 1..Len(codes) : codes[i] = v) - 1

\* from_u8(): the enum value of a discriminant, "None" when there is none.
from_u8(codes, n) == IF n + 1 \in 1..Len(codes) THEN codes[n + 1] ELSE "None"

AuthenticationMethod ==
    {"OutOfBand", "NumericComparaisonJustWork", "NumericComparaisonUserConfirm",
     "PasskeyEntry"}

KeyType ==
    {"UnauthenticatedP192", "UnauthenticatedP256", "AuthenticatedP192", "AuthenticatedP256"}

AuthenticationParams ==
    [io_capability : IoCapability,
     oob_data_present : OobDataPresent,
     authentication_requirements : AuthenticationRequirements]

NoParams ==
    [io_capability |-> "None", oob_data_present |-> "None",
     authentication_requirements |-> "None"]

(***************************************************************************)
(* PublicKey                                                               *)
(***************************************************************************)
NoKey == [variant |-> "None", bytes |-> <<>>]

\* PublicKey::generate(key_size): NoKey stands for Option::None.
generate(key_size) ==
    IF key_size = P192_PUBLIC_KEY_SIZE
    THEN [variant |-> "P192", bytes |-> Zeros(P192_PUBLIC_KEY_SIZE)]
    ELSE IF key_size = P256_PUBLIC_KEY_SIZE
         THEN [variant |-> "P256", bytes |-> Zeros(P256_PUBLIC_KEY_SIZE)]
         ELSE NoKey

get_size(key) ==
    IF key.variant = "P192" THEN P192_PUBLIC_KEY_SIZE ELSE P256_PUBLIC_KEY_SIZE

\* The number of chunks of as_slice().chunks(16): the last one may be short.
NumChunks(key) == (Len(key.bytes) + CHUNK_SIZE - 1) \div CHUNK_SIZE

Min(a, b) == IF a < b THEN a ELSE b

\* The k-th (1-based) chunk of as_slice().chunks(16).
chunk(key, k) ==
    SubSeq(key.bytes, (k - 1) * CHUNK_SIZE + 1, Min(k * CHUNK_SIZE, Len(key.bytes)))

\* chunk.copy_from_slice(data) on the k-th chunk of as_mut_slice().chunks_mut(16).
copy_chunk(key, k, data) ==
    [key EXCEPT !.bytes =
        [i \in 1..Len(key.bytes) |->
            IF (k - 1) * CHUNK_SIZE < i /\ i <= k * CHUNK_SIZE
            THEN data[i - (k - 1) * CHUNK_SIZE]
            ELSE key.bytes[i]]]

(***************************************************************************)
(* Method selection and link key type.                                     *)
(***************************************************************************)
has_mitm_never(requirements) == FALSE

has_mitm(requirements) ==
    CASE requirements \in {"NoBonding", "DedicatedBonding", "GeneralBonding"} -> FALSE
      [] requirements \in {"NoBondingMitmProtection", "DedicatedBondingMitmProtection",
                           "GeneralBondingMitmProtection"} -> TRUE

\* A slip in the passkey test: the responder's KeyboardOnly case is forgotten.
authentication_method_one_sided(initiator, responder) ==
    IF initiator.oob_data_present # "NotPresent" \/ responder.oob_data_present # "NotPresent"
    THEN "OutOfBand"
    ELSE IF ~has_mitm(initiator.authentication_requirements)
            /\ ~has_mitm(responder.authentication_requirements)
    THEN "NumericComparaisonJustWork"
    ELSE IF initiator.io_capability = "KeyboardOnly"
            /\ responder.io_capability # "NoInputNoOutput"
    THEN "PasskeyEntry"
    ELSE IF initiator.io_capability = "DisplayYesNo"
            /\ responder.io_capability = "DisplayYesNo"
    THEN "NumericComparaisonUserConfirm"
    ELSE "NumericComparaisonJustWork"

authentication_method(initiator, responder) ==
    IF initiator.oob_data_present # "NotPresent" \/ responder.oob_data_present # "NotPresent"
    THEN "OutOfBand"
    ELSE IF ~has_mitm(initiator.authentication_requirements)
            /\ ~has_mitm(responder.authentication_requirements)
    THEN "NumericComparaisonJustWork"
    ELSE IF (initiator.io_capability = "KeyboardOnly"
             /\ responder.io_capability # "NoInputNoOutput")
            \/ (responder.io_capability = "KeyboardOnly"
                /\ initiator.io_capability # "NoInputNoOutput")
    THEN "PasskeyEntry"
    ELSE IF initiator.io_capability = "DisplayYesNo"
            /\ responder.io_capability = "DisplayYesNo"
    THEN "NumericComparaisonUserConfirm"
    ELSE "NumericComparaisonJustWork"

\* A slip in the match: the user-confirm arm is merged with the just-works arm.
link_key_type_confirm_unauthenticated(auth_method, public_key) ==
    CASE public_key.variant = "P256" /\ auth_method \in {"OutOfBand", "PasskeyEntry"}
            -> "AuthenticatedP256"
      [] public_key.variant = "P192" /\ auth_method \in {"OutOfBand", "PasskeyEntry"}
            -> "AuthenticatedP192"
      [] public_key.variant = "P256"
         /\ auth_method \in {"NumericComparaisonJustWork", "NumericComparaisonUserConfirm"}
            -> "UnauthenticatedP256"
      [] public_key.variant = "P192"
         /\ auth_method \in {"NumericComparaisonJustWork", "NumericComparaisonUserConfirm"}
            -> "UnauthenticatedP192"

link_key_type(auth_method, public_key) ==
    CASE public_key.variant = "P256"
         /\ auth_method \in {"OutOfBand", "PasskeyEntry", "NumericComparaisonUserConfirm"}
            -> "AuthenticatedP256"
      [] public_key.variant = "P192"
         /\ auth_method \in {"OutOfBand", "PasskeyEntry", "NumericComparaisonUserConfirm"}
            -> "AuthenticatedP192"
      [] public_key.variant = "P256" /\ auth_method = "NumericComparaisonJustWork"
            -> "UnauthenticatedP256"
      [] public_key.variant = "P192" /\ auth_method = "NumericComparaisonJustWork"
            -> "UnauthenticatedP192"

(***************************************************************************)
(* Machine state.                                                          *)
(***************************************************************************)
\* The locals of a machine before its procedure starts.  `trace` is what the
\* machine has handed to its Context, in program order: every HCI event it
\* emitted and every LMP packet it sent.  `rx` is the last LMP packet it consumed.
NewMachine(pc) ==
    [pc |-> pc, ret |-> "none", retval |-> "None", transaction_id |-> 0,
     initiator |-> NoParams, responder |-> NoParams,
     key |-> NoKey, idx |-> 0, peer_public_key |-> NoKey,
     auth_method |-> "None", round |-> 0,
     negative_user_confirmation |-> FALSE, auth_result |-> "None",
     trace |-> <<>>, rx |-> [op |-> "None", transaction_id |-> 0]]

(***************************************************************************)
(* LMP packets, HCI events and HCI commands.                               *)
(***************************************************************************)
IoCapabilityReq(io, oob, auth) ==
    [op |-> "IoCapabilityReq", transaction_id |-> 0, io_capabilities |-> io,
     oob_authentication_data |-> oob, authentication_requirement |-> auth]

IoCapabilityRes(io, oob, auth) ==
    [op |-> "IoCapabilityRes", transaction_id |-> 0, io_capabilities |-> io,
     oob_authentication_data |-> oob, authentication_requirement |-> auth]

EncapsulatedHeader(tid, len) ==
    [op |-> "EncapsulatedHeader", transaction_id |-> tid, major_type |-> 1,
     minor_type |-> 1, payload_length |-> len]

EncapsulatedPayload(tid, data) ==
    [op |-> "EncapsulatedPayload", transaction_id |-> tid, data |-> data]

Accepted(tid, opcode) ==
    [op |-> "Accepted", transaction_id |-> tid, accepted_opcode |-> opcode]

NotAccepted(opcode, error_code) ==
    [op |-> "NotAccepted", transaction_id |-> 0, not_accepted_opcode |-> opcode,
     error_code |-> error_code]

SimplePairingConfirm(commitment_value) ==
    [op |-> "SimplePairingConfirm", transaction_id |-> 0,
     commitment_value |-> commitment_value]

SimplePairingNumber(nonce) ==
    [op |-> "SimplePairingNumber", transaction_id |-> 0, nonce |-> nonce]

DhkeyCheck(confirmation_value) ==
    [op |-> "DhkeyCheck", transaction_id |-> 0, confirmation_value |-> confirmation_value]

NumericComparaisonFailed == [op |-> "NumericComparaisonFailed", transaction_id |-> 0]

AuRand == [op |-> "AuRand", transaction_id |-> 0]

Sres == [op |-> "Sres", transaction_id |-> 0]

SimplePairingComplete(status) == [ev |-> "SimplePairingComplete", status |-> status]

LinkKeyNotification(key_type) ==
    [ev |-> "LinkKeyNotification", key_type |-> key_type, link_key |-> Zeros(16)]

IoCapabilityResponse(p) ==
    [ev |-> "IoCapabilityResponse", io_capability |-> p.io_capability,
     oob_data_present |-> p.oob_data_present,
     authentication_requirements |-> p.authentication_requirements]

Event(name) == [ev |-> name]

(***************************************************************************)
(* The inputs of a run: what the host and, in a run of one machine alone,  *)
(* the peer may send.                                                      *)
(***************************************************************************)
\* The IO capability replies of the host: one value for each behaviour of
\* Stage 1 (keyboard or not, OOB data or not, MITM flag or not).
ParamsSample ==
    {[io_capability |-> "DisplayYesNo", oob_data_present |-> "NotPresent",
      authentication_requirements |-> "GeneralBondingMitmProtection"],
     [io_capability |-> "KeyboardOnly", oob_data_present |-> "NotPresent",
      authentication_requirements |-> "DedicatedBondingMitmProtection"],
     [io_capability |-> "NoInputNoOutput", oob_data_present |-> "NotPresent",
      authentication_requirements |-> "NoBonding"],
     [io_capability |-> "DisplayOnly", oob_data_present |-> "P192Present",
      authentication_requirements |-> "GeneralBonding"],
     [io_capability |-> "DisplayOnly", oob_data_present |-> "NotPresent",
      authentication_requirements |-> "NoBondingMitmProtection"],
     [io_capability |-> "KeyboardOnly", oob_data_present |-> "P256Present",
      authentication_requirements |-> "DedicatedBonding"],
     [io_capability |-> "DisplayYesNo", oob_data_present |-> "NotPresent",
      authentication_requirements |-> "NoBonding"],
     [io_capability |-> "NoInputNoOutput", oob_data_present |-> "P192AndP256Present",
      authentication_requirements |-> "GeneralBondingMitmProtection"]}

\* An error code other than Success, as a u8.
AuthenticationFailureCode == 5

NonZeroCommitment == [i \in 1..COMMITMENT_VALUE_SIZE |-> IF i = 1 THEN 1 ELSE 0]

AcceptedOpcodes ==
    {"EncapsulatedHeader", "EncapsulatedPayload", "SimplePairingNumber", "DhkeyCheck"}

\* Packets a peer that is not the other machine may send: any packet of the
\* awaited shape, with valid and invalid field values.
EnvPackets ==
    {IoCapabilityReq(to_u8(IoCapabilityCodes, p.io_capability),
                     to_u8(OobDataPresentCodes, p.oob_data_present),
                     to_u8(AuthenticationRequirementsCodes, p.authentication_requirements))
        : p \in ParamsSample}
    \cup {IoCapabilityRes(to_u8(IoCapabilityCodes, p.io_capability),
                          to_u8(OobDataPresentCodes, p.oob_data_present),
                          to_u8(AuthenticationRequirementsCodes,
                                p.authentication_requirements))
            : p \in ParamsSample}
    \cup {IoCapabilityReq(4, 0, 0), IoCapabilityRes(1, 0, 6)}
    \cup {EncapsulatedHeader(0, n) : n \in {P192_PUBLIC_KEY_SIZE, P256_PUBLIC_KEY_SIZE, 16}}
    \cup {EncapsulatedPayload(0, Zeros(CHUNK_SIZE))}
    \cup {Accepted(0, o) : o \in AcceptedOpcodes}
    \cup {NotAccepted(o, AuthenticationFailureCode) : o \in AcceptedOpcodes \cup {"AuRand"}}
    \cup {SimplePairingConfirm(Zeros(COMMITMENT_VALUE_SIZE)),
          SimplePairingConfirm(NonZeroCommitment),
          SimplePairingNumber(Zeros(NONCE_SIZE)),
          DhkeyCheck(Zeros(CONFIRMATION_VALUE_SIZE)),
          NumericComparaisonFailed, AuRand, Sres}

(***************************************************************************)
(* Context                                                                 *)
(***************************************************************************)
send_hci_event(s, event) == [s EXCEPT !.trace = Append(@, [io |-> "hci", msg |-> event])]

send_lmp_packet(s, packet) == [s EXCEPT !.trace = Append(@, [io |-> "lmp", msg |-> packet])]

\* receive_lmp_packet::<T>(): the packets machine m can be resumed with while
\* it awaits a packet whose opcode is in ops.  In a joint run this is the next
\* packet in flight, when it has the awaited shape.
receive_lmp_packet(m, ops) ==
    IF mode = "joint"
    THEN IF chan[m] # <<>> /\ Head(chan[m]).op \in ops THEN {Head(chan[m])} ELSE {}
    ELSE {p \in EnvPackets : p.op \in ops}

\* The answers that end send_accepted_lmp_packet for a packet of `opcode`.
accepted_lmp_packet(m, opcode) ==
    {p \in receive_lmp_packet(m, {"Accepted", "NotAccepted"}) :
        \/ p.op = "Accepted" /\ p.accepted_opcode = opcode
        \/ p.op = "NotAccepted" /\ p.not_accepted_opcode = opcode}

\* The Result of send_accepted_lmp_packet.
AcceptedResult(p) == IF p.op = "Accepted" THEN "Ok" ELSE "Err"

NoPacket == [op |-> "None", transaction_id |-> 0]

IsLmp(entry) == entry.io = "lmp"

\* One resumption of machine m ends in state s: its locals are stored, the
\* packets it sent are put on the wire, the packet it consumed (NoPacket when
\* it was resumed by the host) leaves the channel.
Commit(m, s, consumed) ==
    LET sent == SelectSeq(SubSeq(s.trace, Len(st[m].trace) + 1, Len(s.trace)), IsLmp)
    IN  /\ st' = [st EXCEPT ![m] = IF consumed.op = "None"
                                   THEN s
                                   ELSE [s EXCEPT !.rx = consumed]]
        /\ wire' = wire \o [i \in 1..Len(sent) |-> [from |-> m, pkt |-> sent[i].msg]]
        /\ chan' = IF mode = "joint"
                   THEN [c \in Machines |->
                            IF c = m
                            THEN IF consumed.op = "None" THEN chan[c] ELSE Tail(chan[c])
                            ELSE chan[c] \o [i \in 1..Len(sent) |-> sent[i].msg]]
                   ELSE chan
        /\ UNCHANGED <<mode, sc>>

\* A panic (todo!() or unwrap() of None) ends the machine.
Panic(s) == [s EXCEPT !.pc = "panic"]

\* The procedure returns `result`.
Return(s, result) == [s EXCEPT !.pc = "done", !.retval = result]

(***************************************************************************)
(* The synchronous start of each sub-procedure, up to its first await.     *)
(* `ret` names the place in the caller where the sub-procedure returns.    *)
(***************************************************************************)
send_public_key(s, transaction_id, public_key, ret) ==
    [send_lmp_packet(s, EncapsulatedHeader(transaction_id, get_size(public_key) % 256))
        EXCEPT !.pc = "send_public_key.header", !.key = public_key, !.idx = 0,
               !.transaction_id = transaction_id, !.ret = ret]

receive_public_key(s, transaction_id, ret) ==
    [s EXCEPT !.pc = "receive_public_key.header", !.key = NoKey, !.idx = 0,
              !.transaction_id = transaction_id, !.ret = ret]

receive_commitment(s, skip_first, ret) ==
    IF ~skip_first
    THEN [s EXCEPT !.pc = "receive_commitment.confirm", !.ret = ret]
    ELSE [send_lmp_packet(s, SimplePairingConfirm(Zeros(COMMITMENT_VALUE_SIZE)))
            EXCEPT !.pc = "receive_commitment.number", !.ret = ret]

send_commitment(s, skip_first, ret) ==
    [(IF ~skip_first
      THEN send_lmp_packet(s, SimplePairingConfirm(Zeros(COMMITMENT_VALUE_SIZE)))
      ELSE s)
        EXCEPT !.pc = "send_commitment.confirm", !.ret = ret]

user_confirmation_request(s, ret) ==
    [send_hci_event(s, Event("UserConfirmationRequest"))
        EXCEPT !.pc = "user_confirmation_request.reply", !.ret = ret]

user_passkey_request(s, ret) ==
    [send_hci_event(s, Event("UserPasskeyRequest"))
        EXCEPT !.pc = "user_passkey_request.reply", !.ret = ret]

remote_oob_data_request(s, ret) ==
    [send_hci_event(s, Event("RemoteOobDataRequest"))
        EXCEPT !.pc = "remote_oob_data_request.reply", !.ret = ret]

\* authentication::send_challenge: sends the challenge and awaits its answer.
send_challenge(s, ret) ==
    [send_lmp_packet(s, AuRand) EXCEPT !.pc = "send_challenge.response", !.ret = ret]

\* authentication::receive_challenge: awaits the peer's challenge.
receive_challenge(s, ret) ==
    [s EXCEPT !.pc = "receive_challenge.au_rand", !.ret = ret]

(***************************************************************************)
(* initiate: the code between two awaits of the coordinator.               *)
(***************************************************************************)
\* Authentication Stage 2: the DhkeyCheck is sent and its answer awaited.
initiate_stage2(s) ==
    [send_lmp_packet(s, DhkeyCheck(Zeros(CONFIRMATION_VALUE_SIZE)))
        EXCEPT !.pc = "initiate.dhkey_check.accepted"]

\* A slip in the loop bound: one round too many.
initiate_passkey_rounds_off_by_one(s) ==
    IF s.round <= PASSKEY_ENTRY_REPEAT_NUMBER
    THEN send_commitment(s, FALSE, "initiate.pe.send_commitment")
    ELSE initiate_stage2(s)

\* for _ in 0..PASSKEY_ENTRY_REPEAT_NUMBER { send_commitment(ctx, false).await }
\* with s.round rounds done; Stage 2 follows the loop.
initiate_passkey_rounds(s) ==
    IF s.round < PASSKEY_ENTRY_REPEAT_NUMBER
    THEN send_commitment(s, FALSE, "initiate.pe.send_commitment")
    ELSE initiate_stage2(s)

\* A slip: the Numeric Comparison round is started with skip_first = false.
initiate_stage1_never_skips(s0) ==
    LET auth_method == authentication_method(s0.initiator, s0.responder)
        s == [s0 EXCEPT !.auth_method = auth_method]
    IN  CASE auth_method \in {"NumericComparaisonJustWork", "NumericComparaisonUserConfirm"}
                -> send_commitment(s, FALSE, "initiate.nc.send_commitment")
          [] auth_method = "PasskeyEntry"
                -> IF s.initiator.io_capability = "KeyboardOnly"
                   THEN user_passkey_request(s, "initiate.pe.user_passkey_request")
                   ELSE initiate_passkey_rounds(
                            [send_hci_event(s, Event("UserPasskeyNotification"))
                                EXCEPT !.round = 0])
          [] auth_method = "OutOfBand"
                -> IF s.initiator.oob_data_present # "NotPresent"
                   THEN remote_oob_data_request(s, "initiate.oob.remote_oob_data_request")
                   ELSE send_commitment(s, FALSE, "initiate.oob.send_commitment")

\* Authentication Stage 1: the method and the first step of its flow.
initiate_stage1(s0) ==
    LET auth_method == authentication_method(s0.initiator, s0.responder)
        s == [s0 EXCEPT !.auth_method = auth_method]
    IN  CASE auth_method \in {"NumericComparaisonJustWork", "NumericComparaisonUserConfirm"}
                -> send_commitment(s, TRUE, "initiate.nc.send_commitment")
          [] auth_method = "PasskeyEntry"
                -> IF s.initiator.io_capability = "KeyboardOnly"
                   THEN user_passkey_request(s, "initiate.pe.user_passkey_request")
                   ELSE initiate_passkey_rounds(
                            [send_hci_event(s, Event("UserPasskeyNotification"))
                                EXCEPT !.round = 0])
          [] auth_method = "OutOfBand"
                -> IF s.initiator.oob_data_present # "NotPresent"
                   THEN remote_oob_data_request(s, "initiate.oob.remote_oob_data_request")
                   ELSE send_commitment(s, FALSE, "initiate.oob.send_commitment")

\* A slip: the early return is missing, Stage 2 follows the failure events.
initiate_stage1_failed_no_return(s) ==
    initiate_stage2(send_hci_event(send_lmp_packet(s, NumericComparaisonFailed),
                                   SimplePairingComplete("AuthenticationFailure")))

\* A slip: the failure is reported to the host but not to the peer.
initiate_stage1_failed_silent(s) ==
    Return(send_hci_event(s, SimplePairingComplete("AuthenticationFailure")), "Err")

\* if result.is_err() { ... return Err(()) }
initiate_stage1_failed(s) ==
    Return(send_hci_event(send_lmp_packet(s, NumericComparaisonFailed),
                          SimplePairingComplete("AuthenticationFailure")),
           "Err")

\* A slip: the notification is sent whatever send_challenge returned.
initiate_link_key_unchecked(s) ==
    Return(send_hci_event(s, LinkKeyNotification(
                                 link_key_type(s.auth_method, s.peer_public_key))),
           "Ok")

\* if auth_result.is_err() { return Err(()) } ... LinkKeyNotification ... Ok(())
initiate_link_key(s) ==
    IF s.auth_result = "Err"
    THEN Return(s, "Err")
    ELSE Return(send_hci_event(s, LinkKeyNotification(
                                      link_key_type(s.auth_method, s.peer_public_key))),
                "Ok")

(***************************************************************************)
(* respond: the code between two awaits of the coordinator.                *)
(***************************************************************************)
\* A slip: a refused passkey or OOB request sets the flag as well.
respond_stage2_gate_any_refusal(s, negative_user_confirmation) ==
    [s EXCEPT !.negative_user_confirmation =
                \/ negative_user_confirmation
                \/ \E i \in 1..Len(s.trace) :
                    /\ s.trace[i].io = "hci"
                    /\ s.trace[i].msg.ev
                        \in {"UserPasskeyRequestNegativeReplyComplete",
                             "RemoteOobDataRequestNegativeReplyComplete"},
              !.pc = "respond.dhkey_check"]

\* The Stage-2 gate: the machine awaits NumericComparaisonFailed or DhkeyCheck.
respond_stage2_gate(s, negative_user_confirmation) ==
    [s EXCEPT !.negative_user_confirmation = negative_user_confirmation,
              !.pc = "respond.dhkey_check"]

\* for _ in 0..PASSKEY_ENTRY_REPEAT_NUMBER { receive_commitment(ctx, false).await }
\* with s.round rounds done; the match arm then yields false.
respond_passkey_rounds(s) ==
    IF s.round < PASSKEY_ENTRY_REPEAT_NUMBER
    THEN receive_commitment(s, FALSE, "respond.pe.receive_commitment")
    ELSE respond_stage2_gate(s, FALSE)

\* Authentication Stage 1: the method and the first step of its flow.
respond_stage1(s0) ==
    LET auth_method == authentication_method(s0.initiator, s0.responder)
        s == [s0 EXCEPT !.auth_method = auth_method]
    IN  CASE auth_method \in {"NumericComparaisonJustWork", "NumericComparaisonUserConfirm"}
                -> receive_commitment(s, TRUE, "respond.nc.receive_commitment")
          [] auth_method = "PasskeyEntry"
                -> IF s.responder.io_capability = "KeyboardOnly"
                   THEN user_passkey_request(s, "respond.pe.user_passkey_request")
                   ELSE respond_passkey_rounds(
                            [send_hci_event(s, Event("UserPasskeyNotification"))
                                EXCEPT !.round = 0])
          [] auth_method = "OutOfBand"
                -> IF s.responder.oob_data_present # "NotPresent"
                   THEN remote_oob_data_request(s, "respond.oob.remote_oob_data_request")
                   ELSE receive_commitment(s, FALSE, "respond.oob.receive_commitment")

\* A slip: the DhkeyCheck is accepted although the user refused.
respond_dhkey_check_ignoring_user(s) ==
    [send_lmp_packet(send_lmp_packet(s, Accepted(0, "DhkeyCheck")),
                     DhkeyCheck(Zeros(CONFIRMATION_VALUE_SIZE)))
        EXCEPT !.pc = "respond.dhkey_check.accepted"]

\* A slip: the user's refusal is reported to the host only; the peer is
\* answered as if the user had confirmed.
respond_dhkey_check_refusal_local(s) ==
    IF s.negative_user_confirmation
    THEN Return(send_hci_event(
                    send_lmp_packet(send_lmp_packet(s, Accepted(0, "DhkeyCheck")),
                                    DhkeyCheck(Zeros(CONFIRMATION_VALUE_SIZE))),
                    SimplePairingComplete("AuthenticationFailure")),
                "Err")
    ELSE [send_lmp_packet(send_lmp_packet(s, Accepted(0, "DhkeyCheck")),
                          DhkeyCheck(Zeros(CONFIRMATION_VALUE_SIZE)))
            EXCEPT !.pc = "respond.dhkey_check.accepted"]

\* The code that follows the receipt of DhkeyCheck at the gate.
respond_dhkey_check(s) ==
    IF s.negative_user_confirmation
    THEN Return(send_hci_event(
                    send_lmp_packet(s, NotAccepted("DhkeyCheck", AuthenticationFailureCode)),
                    SimplePairingComplete("AuthenticationFailure")),
                "Err")
    ELSE [send_lmp_packet(send_lmp_packet(s, Accepted(0, "DhkeyCheck")),
                          DhkeyCheck(Zeros(CONFIRMATION_VALUE_SIZE)))
            EXCEPT !.pc = "respond.dhkey_check.accepted"]

\* if auth_result.is_err() { return Err(()) } ... LinkKeyNotification ... Ok(())
respond_link_key(s) ==
    IF s.auth_result = "Err"
    THEN Return(s, "Err")
    ELSE Return(send_hci_event(s, LinkKeyNotification(
                                      link_key_type(s.auth_method, s.peer_public_key))),
                "Ok")

(***************************************************************************)
(* The return of a sub-procedure: the caller continues at s.ret with the   *)
(* sub-procedure's result, up to its next await.                           *)
(***************************************************************************)
Resume(s, result) ==
    CASE s.ret = "return" -> Return(s, result)
      \* initiate
      [] s.ret = "initiate.send_public_key"
            -> receive_public_key(s, 0, "initiate.receive_public_key")
      [] s.ret = "initiate.receive_public_key"
            -> initiate_stage1([s EXCEPT !.peer_public_key = s.key])
      [] s.ret = "initiate.nc.send_commitment"
            -> user_confirmation_request(s, "initiate.nc.user_confirmation_request")
      [] s.ret = "initiate.nc.user_confirmation_request"
            -> IF result = "Err" THEN initiate_stage1_failed(s) ELSE initiate_stage2(s)
      [] s.ret = "initiate.pe.user_passkey_request"
            -> IF result = "Err"
               THEN initiate_stage1_failed(s)
               ELSE initiate_passkey_rounds([s EXCEPT !.round = 0])
      [] s.ret = "initiate.pe.send_commitment"
            -> initiate_passkey_rounds([s EXCEPT !.round = @ + 1])
      [] s.ret = "initiate.oob.remote_oob_data_request"
            -> IF result = "Err"
               THEN initiate_stage1_failed(s)
               ELSE send_commitment(s, FALSE, "initiate.oob.send_commitment")
      [] s.ret = "initiate.oob.send_commitment" -> initiate_stage2(s)
      [] s.ret = "initiate.send_challenge"
            -> receive_challenge([s EXCEPT !.auth_result = result],
                                 "initiate.receive_challenge")
      [] s.ret = "initiate.receive_challenge" -> initiate_link_key(s)
      \* respond
      [] s.ret = "respond.receive_public_key"
            -> LET public_key == generate(get_size(s.key))
               IN  IF public_key = NoKey
                   THEN Panic(s)
                   ELSE send_public_key([s EXCEPT !.peer_public_key = s.key], 0,
                                        public_key, "respond.send_public_key")
      [] s.ret = "respond.send_public_key" -> respond_stage1(s)
      [] s.ret = "respond.nc.receive_commitment"
            -> user_confirmation_request(s, "respond.nc.user_confirmation_request")
      [] s.ret = "respond.nc.user_confirmation_request"
            -> respond_stage2_gate(s, result = "Err")
      [] s.ret = "respond.pe.user_passkey_request"
            -> respond_passkey_rounds([s EXCEPT !.round = 0])
      [] s.ret = "respond.pe.receive_commitment"
            -> respond_passkey_rounds([s EXCEPT !.round = @ + 1])
      [] s.ret = "respond.oob.remote_oob_data_request"
            -> receive_commitment(s, FALSE, "respond.oob.receive_commitment")
      [] s.ret = "respond.oob.receive_commitment" -> respond_stage2_gate(s, FALSE)
      [] s.ret = "respond.receive_challenge"
            -> send_challenge(s, "respond.send_challenge")
      [] s.ret = "respond.send_challenge"
            -> respond_link_key([s EXCEPT !.auth_result = result])

(***************************************************************************)
(* The sub-procedures after each of their awaits.                          *)
(***************************************************************************)
\* A slip: the loop over the chunks stops one chunk early.
send_public_key_accepted_short(s) ==
    IF s.idx + 1 < NumChunks(s.key)
    THEN [send_lmp_packet(s, EncapsulatedPayload(s.transaction_id, chunk(s.key, s.idx + 1)))
            EXCEPT !.pc = "send_public_key.payload", !.idx = @ + 1]
    ELSE Resume(s, "Ok")

\* send_public_key after an answer to the header or to a payload (the answer
\* is not looked at): the next chunk is sent, or the procedure returns.
send_public_key_accepted(s) ==
    IF s.idx < NumChunks(s.key)
    THEN [send_lmp_packet(s, EncapsulatedPayload(s.transaction_id, chunk(s.key, s.idx + 1)))
            EXCEPT !.pc = "send_public_key.payload", !.idx = @ + 1]
    ELSE Resume(s, "Ok")

\* receive_public_key after the EncapsulatedHeader.
receive_public_key_header(s, header) ==
    LET key == generate(header.payload_length)
    IN  IF key = NoKey
        THEN Panic(s)
        ELSE LET s1 == send_lmp_packet([s EXCEPT !.key = key, !.idx = 0],
                                       Accepted(s.transaction_id, "EncapsulatedHeader"))
             IN  IF NumChunks(key) > 0
                 THEN [s1 EXCEPT !.pc = "receive_public_key.payload"]
                 ELSE Resume(s1, "Ok")

\* receive_public_key after an EncapsulatedPayload.
receive_public_key_payload(s, payload) ==
    LET s1 == send_lmp_packet(
                  [s EXCEPT !.key = copy_chunk(s.key, s.idx + 1, payload.data),
                            !.idx = @ + 1],
                  Accepted(s.transaction_id, "EncapsulatedPayload"))
    IN  IF s1.idx < NumChunks(s1.key) THEN s1 ELSE Resume(s1, "Ok")

\* A slip: the commitment sent back is not the value the peer expects.
receive_commitment_confirm_other_value(s, confirm) ==
    IF confirm.commitment_value # Zeros(COMMITMENT_VALUE_SIZE)
    THEN Panic(s)
    ELSE [send_lmp_packet(s, SimplePairingConfirm(NonZeroCommitment))
            EXCEPT !.pc = "receive_commitment.number"]

\* receive_commitment after the peer's SimplePairingConfirm.
receive_commitment_confirm(s, confirm) ==
    IF confirm.commitment_value # Zeros(COMMITMENT_VALUE_SIZE)
    THEN Panic(s)
    ELSE [send_lmp_packet(s, SimplePairingConfirm(Zeros(COMMITMENT_VALUE_SIZE)))
            EXCEPT !.pc = "receive_commitment.number"]

\* A slip: the nonce is sent before the peer's SimplePairingNumber is acknowledged.
receive_commitment_number_swapped(s) ==
    [send_lmp_packet(send_lmp_packet(s, SimplePairingNumber(Zeros(NONCE_SIZE))),
                     Accepted(0, "SimplePairingNumber"))
        EXCEPT !.pc = "receive_commitment.accepted"]

\* receive_commitment after the peer's SimplePairingNumber.
receive_commitment_number(s) ==
    [send_lmp_packet(send_lmp_packet(s, Accepted(0, "SimplePairingNumber")),
                     SimplePairingNumber(Zeros(NONCE_SIZE)))
        EXCEPT !.pc = "receive_commitment.accepted"]

\* receive_commitment after the answer to its SimplePairingNumber.
receive_commitment_accepted(s) == Resume(s, "Ok")

\* send_commitment after the peer's SimplePairingConfirm.
send_commitment_confirm(s, confirm) ==
    IF confirm.commitment_value # Zeros(COMMITMENT_VALUE_SIZE)
    THEN Panic(s)
    ELSE [send_lmp_packet(s, SimplePairingNumber(Zeros(NONCE_SIZE)))
            EXCEPT !.pc = "send_commitment.accepted"]

\* send_commitment after the answer to its SimplePairingNumber.
send_commitment_accepted(s) == [s EXCEPT !.pc = "send_commitment.number"]

\* send_commitment after the peer's SimplePairingNumber.
send_commitment_number(s) ==
    Resume(send_lmp_packet(s, Accepted(0, "SimplePairingNumber")), "Ok")

\* A slip: the negative reply is completed but success is returned.
user_confirmation_reply_always_ok(s, command) ==
    IF command = "UserConfirmationRequestReply"
    THEN Resume(send_hci_event(s, Event("UserConfirmationRequestReplyComplete")), "Ok")
    ELSE Resume(send_hci_event(s, Event("UserConfirmationRequestNegativeReplyComplete")),
                "Ok")

\* user_confirmation_request after the host's command.
user_confirmation_reply(s, command) ==
    IF command = "UserConfirmationRequestReply"
    THEN Resume(send_hci_event(s, Event("UserConfirmationRequestReplyComplete")), "Ok")
    ELSE Resume(send_hci_event(s, Event("UserConfirmationRequestNegativeReplyComplete")),
                "Err")

\* A slip: the `return` sits in the keypress arm too, so the loop ends there.
user_passkey_reply_keypress_returns(s, command) ==
    CASE command = "UserPasskeyRequestReply"
            -> Resume(send_hci_event(s, Event("UserPasskeyRequestReplyComplete")), "Ok")
      [] command = "UserPasskeyRequestNegativeReply"
            -> Resume(send_hci_event(s, Event("UserPasskeyRequestNegativeReplyComplete")),
                      "Err")
      [] command = "SendKeypressNotification"
            -> Resume(send_hci_event(s, Event("SendKeypressNotificationComplete")), "Ok")

\* user_passkey_request after one command of the host.
user_passkey_reply(s, command) ==
    CASE command = "UserPasskeyRequestReply"
            -> Resume(send_hci_event(s, Event("UserPasskeyRequestReplyComplete")), "Ok")
      [] command = "UserPasskeyRequestNegativeReply"
            -> Resume(send_hci_event(s, Event("UserPasskeyRequestNegativeReplyComplete")),
                      "Err")
      [] command = "SendKeypressNotification"
            -> send_hci_event(s, Event("SendKeypressNotificationComplete"))

\* remote_oob_data_request after the host's command.
remote_oob_data_reply(s, command) ==
    IF command = "RemoteOobDataRequestReply"
    THEN Resume(send_hci_event(s, Event("RemoteOobDataRequestReplyComplete")), "Ok")
    ELSE Resume(send_hci_event(s, Event("RemoteOobDataRequestNegativeReplyComplete")),
                "Err")

\* authentication::send_challenge after the peer's answer.
send_challenge_response(s, response) ==
    Resume(s, IF response.op = "Sres" THEN "Ok" ELSE "Err")

\* authentication::receive_challenge after the peer's challenge.
receive_challenge_au_rand(s) == Resume(send_lmp_packet(s, Sres), "Ok")

(***************************************************************************)
(* initiate and respond after each of their own awaits.                    *)
(***************************************************************************)
\* The AuthenticationParams carried by an IoCapabilityReq or IoCapabilityRes;
\* a field is "None" when from_u8 yields None.
DecodeParams(packet) ==
    [io_capability |-> from_u8(IoCapabilityCodes, packet.io_capabilities),
     oob_data_present |-> from_u8(OobDataPresentCodes, packet.oob_authentication_data),
     authentication_requirements |->
        from_u8(AuthenticationRequirementsCodes, packet.authentication_requirement)]

initiate_begin(s) ==
    [send_hci_event(s, Event("IoCapabilityRequest"))
        EXCEPT !.pc = "initiate.io_capability_request_reply"]

\* initiate after the host's IoCapabilityRequestReply.
initiate_io_capability_reply(s, reply) ==
    [send_lmp_packet(
         send_hci_event(s, Event("IoCapabilityRequestReplyComplete")),
         IoCapabilityReq(to_u8(IoCapabilityCodes, reply.io_capability),
                         to_u8(OobDataPresentCodes, reply.oob_data_present),
                         to_u8(AuthenticationRequirementsCodes,
                               reply.authentication_requirements)))
        EXCEPT !.initiator = reply, !.pc = "initiate.io_capability_res"]

\* A slip: the feature check is left out and a P-192 key is always generated.
initiate_io_capability_res_always_p192(s, response, supported_on_both_page1) ==
    LET responder == DecodeParams(response)
    IN  IF \/ responder.io_capability = "None"
           \/ responder.oob_data_present = "None"
           \/ responder.authentication_requirements = "None"
        THEN Panic(s)
        ELSE send_public_key(
                 send_hci_event([s EXCEPT !.responder = responder],
                                IoCapabilityResponse(responder)),
                 0,
                 generate(P192_PUBLIC_KEY_SIZE),
                 "initiate.send_public_key")

\* initiate after the peer's IoCapabilityRes: the public key exchange starts.
initiate_io_capability_res(s, response, supported_on_both_page1) ==
    LET responder == DecodeParams(response)
    IN  IF \/ responder.io_capability = "None"
           \/ responder.oob_data_present = "None"
           \/ responder.authentication_requirements = "None"
        THEN Panic(s)
        ELSE send_public_key(
                 send_hci_event([s EXCEPT !.responder = responder],
                                IoCapabilityResponse(responder)),
                 0,
                 IF supported_on_both_page1
                 THEN generate(P256_PUBLIC_KEY_SIZE)
                 ELSE generate(P192_PUBLIC_KEY_SIZE),
                 "initiate.send_public_key")

\* A slip: the Result of send_accepted_lmp_packet is not looked at.
initiate_dhkey_check_accepted_unchecked(s, result) ==
    [s EXCEPT !.pc = "initiate.dhkey_check"]

\* initiate after the answer to its DhkeyCheck.
initiate_dhkey_check_accepted(s, result) ==
    IF result = "Err"
    THEN Return(send_hci_event(s, SimplePairingComplete("AuthenticationFailure")), "Err")
    ELSE [s EXCEPT !.pc = "initiate.dhkey_check"]

\* A slip: the peer's DhkeyCheck is not acknowledged.
initiate_dhkey_check_no_accepted(s) ==
    send_challenge(send_hci_event(s, SimplePairingComplete("Success")),
                   "initiate.send_challenge")

\* initiate after the peer's DhkeyCheck.
initiate_dhkey_check(s) ==
    send_challenge(
        send_hci_event(send_lmp_packet(s, Accepted(0, "DhkeyCheck")),
                       SimplePairingComplete("Success")),
        "initiate.send_challenge")

\* respond is entered with the peer's IoCapabilityReq.
respond_begin(s, request) ==
    LET initiator == DecodeParams(request)
    IN  IF \/ initiator.io_capability = "None"
           \/ initiator.oob_data_present = "None"
           \/ initiator.authentication_requirements = "None"
        THEN Panic(s)
        ELSE [send_hci_event(
                  send_hci_event([s EXCEPT !.initiator = initiator],
                                 IoCapabilityResponse(initiator)),
                  Event("IoCapabilityRequest"))
                EXCEPT !.pc = "respond.io_capability_request_reply"]

\* A slip: the oob field of the IoCapabilityRes is filled with the io capability.
respond_io_capability_reply_wrong_field(s, reply) ==
    receive_public_key(
        send_lmp_packet(
            send_hci_event([s EXCEPT !.responder = reply],
                           Event("IoCapabilityRequestReplyComplete")),
            IoCapabilityRes(to_u8(IoCapabilityCodes, reply.io_capability),
                            to_u8(IoCapabilityCodes, reply.io_capability),
                            to_u8(AuthenticationRequirementsCodes,
                                  reply.authentication_requirements))),
        0, "respond.receive_public_key")

\* respond after the host's IoCapabilityRequestReply: the public key exchange starts.
respond_io_capability_reply(s, reply) ==
    receive_public_key(
        send_lmp_packet(
            send_hci_event([s EXCEPT !.responder = reply],
                           Event("IoCapabilityRequestReplyComplete")),
            IoCapabilityRes(to_u8(IoCapabilityCodes, reply.io_capability),
                            to_u8(OobDataPresentCodes, reply.oob_data_present),
                            to_u8(AuthenticationRequirementsCodes,
                                  reply.authentication_requirements))),
        0, "respond.receive_public_key")

\* A slip: the peer's NumericComparaisonFailed is treated like a DhkeyCheck.
respond_gate_failure_unseen(s, packet) == respond_dhkey_check(s)

\* respond after the packet of the Stage-2 gate.
respond_gate(s, packet) ==
    IF packet.op = "NumericComparaisonFailed"
    THEN Return(send_hci_event(s, SimplePairingComplete("AuthenticationFailure")), "Err")
    ELSE respond_dhkey_check(s)

\* A slip: the responder challenges first, as the initiator does.
respond_dhkey_check_accepted_challenges_first(s) ==
    send_challenge(send_hci_event(s, SimplePairingComplete("Success")),
                   "respond.send_challenge")

\* respond after the answer to its DhkeyCheck (the answer is not looked at).
respond_dhkey_check_accepted(s) ==
    receive_challenge(send_hci_event(s, SimplePairingComplete("Success")),
                      "respond.receive_challenge")

(***************************************************************************)
(* Actions: one per await.                                                 *)
(***************************************************************************)
\* How often HCI event `name` was emitted in `trace`.
CountEvents(trace, name) ==
    Cardinality({i \in 1..Len(trace) : trace[i].io = "hci" /\ trace[i].msg.ev = name})

SendPublicKeyAccepted(m) ==
    /\ st[m].pc \in {"send_public_key.header", "send_public_key.payload"}
    /\ \E p \in accepted_lmp_packet(m, IF st[m].pc = "send_public_key.header"
                                       THEN "EncapsulatedHeader"
                                       ELSE "EncapsulatedPayload") :
            Commit(m, send_public_key_accepted(st[m]), p)

ReceivePublicKeyHeader(m) ==
    /\ st[m].pc = "receive_public_key.header"
    /\ \E p \in receive_lmp_packet(m, {"EncapsulatedHeader"}) :
            Commit(m, receive_public_key_header(st[m], p), p)

ReceivePublicKeyPayload(m) ==
    /\ st[m].pc = "receive_public_key.payload"
    /\ \E p \in receive_lmp_packet(m, {"EncapsulatedPayload"}) :
            Commit(m, receive_public_key_payload(st[m], p), p)

ReceiveCommitmentConfirm(m) ==
    /\ st[m].pc = "receive_commitment.confirm"
    /\ \E p \in receive_lmp_packet(m, {"SimplePairingConfirm"}) :
            Commit(m, receive_commitment_confirm(st[m], p), p)

ReceiveCommitmentNumber(m) ==
    /\ st[m].pc = "receive_commitment.number"
    /\ \E p \in receive_lmp_packet(m, {"SimplePairingNumber"}) :
            Commit(m, receive_commitment_number(st[m]), p)

ReceiveCommitmentAccepted(m) ==
    /\ st[m].pc = "receive_commitment.accepted"
    /\ \E p \in accepted_lmp_packet(m, "SimplePairingNumber") :
            Commit(m, receive_commitment_accepted(st[m]), p)

SendCommitmentConfirm(m) ==
    /\ st[m].pc = "send_commitment.confirm"
    /\ \E p \in receive_lmp_packet(m, {"SimplePairingConfirm"}) :
            Commit(m, send_commitment_confirm(st[m], p), p)

SendCommitmentAccepted(m) ==
    /\ st[m].pc = "send_commitment.accepted"
    /\ \E p \in accepted_lmp_packet(m, "SimplePairingNumber") :
            Commit(m, send_commitment_accepted(st[m]), p)

SendCommitmentNumber(m) ==
    /\ st[m].pc = "send_commitment.number"
    /\ \E p \in receive_lmp_packet(m, {"SimplePairingNumber"}) :
            Commit(m, send_commitment_number(st[m]), p)

UserConfirmationReply(m) ==
    /\ st[m].pc = "user_confirmation_request.reply"
    /\ \E command \in {"UserConfirmationRequestReply",
                       "UserConfirmationRequestNegativeReply"} :
            Commit(m, user_confirmation_reply(st[m], command), NoPacket)

UserPasskeyReply(m) ==
    /\ st[m].pc = "user_passkey_request.reply"
    /\ \E command \in {"UserPasskeyRequestReply", "UserPasskeyRequestNegativeReply",
                       "SendKeypressNotification"} :
            /\ command = "SendKeypressNotification"
                    => CountEvents(st[m].trace, "SendKeypressNotificationComplete")
                            < MaxKeypress
            /\ Commit(m, user_passkey_reply(st[m], command), NoPacket)

RemoteOobDataReply(m) ==
    /\ st[m].pc = "remote_oob_data_request.reply"
    /\ \E command \in {"RemoteOobDataRequestReply", "RemoteOobDataRequestNegativeReply"} :
            Commit(m, remote_oob_data_reply(st[m], command), NoPacket)

SendChallengeResponse(m) ==
    /\ st[m].pc = "send_challenge.response"
    /\ \E p \in receive_lmp_packet(m, {"Sres", "NotAccepted"}) :
            Commit(m, send_challenge_response(st[m], p), p)

ReceiveChallengeAuRand(m) ==
    /\ st[m].pc = "receive_challenge.au_rand"
    /\ \E p \in receive_lmp_packet(m, {"AuRand"}) :
            Commit(m, receive_challenge_au_rand(st[m]), p)

InitiateBegin ==
    /\ st["I"].pc = "initiate.start"
    /\ Commit("I", initiate_begin(st["I"]), NoPacket)

InitiateIoCapabilityReply ==
    /\ st["I"].pc = "initiate.io_capability_request_reply"
    /\ \E reply \in ParamsSample :
            Commit("I", initiate_io_capability_reply(st["I"], reply), NoPacket)

InitiateIoCapabilityRes ==
    /\ st["I"].pc = "initiate.io_capability_res"
    /\ \E p \in receive_lmp_packet("I", {"IoCapabilityRes"}) :
            Commit("I", initiate_io_capability_res(st["I"], p, sc), p)

InitiateDhkeyCheckAccepted ==
    /\ st["I"].pc = "initiate.dhkey_check.accepted"
    /\ \E p \in accepted_lmp_packet("I", "DhkeyCheck") :
            Commit("I", initiate_dhkey_check_accepted(st["I"], AcceptedResult(p)), p)

InitiateDhkeyCheck ==
    /\ st["I"].pc = "initiate.dhkey_check"
    /\ \E p \in receive_lmp_packet("I", {"DhkeyCheck"}) :
            Commit("I", initiate_dhkey_check(st["I"]), p)

RespondBegin ==
    /\ st["R"].pc = "respond.start"
    /\ \E p \in receive_lmp_packet("R", {"IoCapabilityReq"}) :
            Commit("R", respond_begin(st["R"], p), p)

RespondIoCapabilityReply ==
    /\ st["R"].pc = "respond.io_capability_request_reply"
    /\ \E reply \in ParamsSample :
            Commit("R", respond_io_capability_reply(st["R"], reply), NoPacket)

RespondGate ==
    /\ st["R"].pc = "respond.dhkey_check"
    /\ \E p \in receive_lmp_packet("R", {"NumericComparaisonFailed", "DhkeyCheck"}) :
            Commit("R", respond_gate(st["R"], p), p)

RespondDhkeyCheckAccepted ==
    /\ st["R"].pc = "respond.dhkey_check.accepted"
    /\ \E p \in accepted_lmp_packet("R", "DhkeyCheck") :
            Commit("R", respond_dhkey_check_accepted(st["R"]), p)

\* The steps of the sub-procedures, which either machine may take.
SubProcedureStep(m) ==
    \/ SendPublicKeyAccepted(m)
    \/ ReceivePublicKeyHeader(m)
    \/ ReceivePublicKeyPayload(m)
    \/ ReceiveCommitmentConfirm(m)
    \/ ReceiveCommitmentNumber(m)
    \/ ReceiveCommitmentAccepted(m)
    \/ SendCommitmentConfirm(m)
    \/ SendCommitmentAccepted(m)
    \/ SendCommitmentNumber(m)
    \/ UserConfirmationReply(m)
    \/ UserPasskeyReply(m)
    \/ RemoteOobDataReply(m)
    \/ SendChallengeResponse(m)
    \/ ReceiveChallengeAuRand(m)

InitiatorStep ==
    \/ InitiateBegin
    \/ InitiateIoCapabilityReply
    \/ InitiateIoCapabilityRes
    \/ InitiateDhkeyCheckAccepted
    \/ InitiateDhkeyCheck
    \/ SubProcedureStep("I")

ResponderStep ==
    \/ RespondBegin
    \/ RespondIoCapabilityReply
    \/ RespondGate
    \/ RespondDhkeyCheckAccepted
    \/ SubProcedureStep("R")

(***************************************************************************)
(* The pairing: initiate against respond, or one of them against any peer. *)
(***************************************************************************)
Init ==
    /\ mode \in {"joint", "initiator", "responder"}
    /\ sc \in BOOLEAN
    /\ st = [m \in Machines |->
                IF m = "I"
                THEN NewMachine(IF mode = "responder" THEN "absent" ELSE "initiate.start")
                ELSE NewMachine(IF mode = "initiator" THEN "absent" ELSE "respond.start")]
    /\ chan = [m \in Machines |-> <<>>]
    /\ wire = <<>>

Next == InitiatorStep \/ ResponderStep

Spec == Init /\ [][Next]_vars

(***************************************************************************)
(* The method selector and link_key_type on their own: machine "I" applies *)
(* them to every pair of AuthenticationParams and each key variant.        *)
(***************************************************************************)
AuthenticationMethodCall ==
    /\ st["I"].pc = "call.authentication_method"
    /\ Commit("I",
              [st["I"] EXCEPT
                  !.auth_method = authentication_method(st["I"].initiator,
                                                        st["I"].responder),
                  !.pc = "call.link_key_type"],
              NoPacket)

LinkKeyTypeCall ==
    /\ st["I"].pc = "call.link_key_type"
    /\ \E key_size \in {P192_PUBLIC_KEY_SIZE, P256_PUBLIC_KEY_SIZE} :
            LET public_key == generate(key_size)
            IN  Commit("I",
                       Return([st["I"] EXCEPT !.peer_public_key = public_key],
                              link_key_type(st["I"].auth_method, public_key)),
                       NoPacket)

InitMethod ==
    /\ mode = "method"
    /\ sc = FALSE
    /\ \E initiator \in AuthenticationParams, responder \in AuthenticationParams :
            st = [m \in Machines |->
                    IF m = "I"
                    THEN [NewMachine("call.authentication_method")
                            EXCEPT !.initiator = initiator, !.responder = responder]
                    ELSE NewMachine("absent")]
    /\ chan = [m \in Machines |-> <<>>]
    /\ wire = <<>>

NextMethod == AuthenticationMethodCall \/ LinkKeyTypeCall

SpecMethod == InitMethod /\ [][NextMethod]_vars

(***************************************************************************)
(* The key transfer on its own: "I" calls send_public_key with a key of    *)
(* either variant, "R" calls receive_public_key.                           *)
(***************************************************************************)
\* A key of `key_size` bytes whose i-th byte is (seed + i) % 256.
SampleKey(key_size, seed) ==
    [generate(key_size) EXCEPT !.bytes = [i \in 1..key_size |-> (seed + i) % 256]]

SendPublicKeyCall ==
    /\ st["I"].pc = "call.send_public_key"
    /\ Commit("I", send_public_key(st["I"], 0, st["I"].key, "return"), NoPacket)

InitKey ==
    /\ mode \in {"joint", "initiator", "responder"}
    /\ sc = FALSE
    /\ \E key_size \in {P192_PUBLIC_KEY_SIZE, P256_PUBLIC_KEY_SIZE}, seed \in 0..MaxSeed :
            st = [m \in Machines |->
                    IF m = "I"
                    THEN IF mode = "responder"
                         THEN NewMachine("absent")
                         ELSE [NewMachine("call.send_public_key")
                                 EXCEPT !.key = SampleKey(key_size, seed)]
                    ELSE IF mode = "initiator"
                         THEN NewMachine("absent")
                         ELSE receive_public_key(NewMachine("absent"), 0, "return")]
    /\ chan = [m \in Machines |-> <<>>]
    /\ wire = <<>>

NextKey ==
    \/ SendPublicKeyCall
    \/ \E m \in Machines :
        \/ SendPublicKeyAccepted(m)
        \/ ReceivePublicKeyHeader(m)
        \/ ReceivePublicKeyPayload(m)

SpecKey == InitKey /\ [][NextKey]_vars

(***************************************************************************)
(* Properties of the method selector and of link_key_type (SpecMethod).    *)
(***************************************************************************)
MethodApplied == mode = "method" /\ st["I"].auth_method # "None"

\* C4: for every pair of AuthenticationParams values, the method computed for
\* (initiator, responder) is the method of the swapped pair (responder, initiator).
C4_MethodSymmetric ==
    MethodApplied
        => st["I"].auth_method
            = authentication_method(st["I"].responder, st["I"].initiator)

\* C4 witness: the selector was applied to a pair whose two sides differ and
\* whose method rests on the io capabilities of both sides.
C4_Witness ==
    /\ MethodApplied
    /\ st["I"].auth_method = "PasskeyEntry"
    /\ st["I"].initiator.io_capability = "DisplayOnly"
    /\ st["I"].responder.io_capability = "KeyboardOnly"

\* The requirements that carry the MITM-protection flag.
MitmRequirements ==
    {"NoBondingMitmProtection", "DedicatedBondingMitmProtection",
     "GeneralBondingMitmProtection"}

\* The decision order as the specification states it, first match first.
DecisionOrder(i, r) ==
    CASE i.oob_data_present # "NotPresent" \/ r.oob_data_present # "NotPresent"
            -> "OutOfBand"
      [] /\ i.authentication_requirements \notin MitmRequirements
         /\ r.authentication_requirements \notin MitmRequirements
            -> "NumericComparaisonJustWork"
      [] \E sides \in {<<i, r>>, <<r, i>>} :
            /\ sides[1].io_capability = "KeyboardOnly"
            /\ sides[2].io_capability # "NoInputNoOutput"
            -> "PasskeyEntry"
      [] i.io_capability = "DisplayYesNo" /\ r.io_capability = "DisplayYesNo"
            -> "NumericComparaisonUserConfirm"
      [] OTHER -> "NumericComparaisonJustWork"

\* C5: the selector yields a method for every input pair, and it is the first
\* match of the decision order: OutOfBand, just-works without MITM, PasskeyEntry,
\* user-confirm, just-works otherwise.
C5_MethodDecisionOrder ==
    MethodApplied
        => /\ st["I"].auth_method \in AuthenticationMethod
           /\ st["I"].auth_method = DecisionOrder(st["I"].initiator, st["I"].responder)

\* C5 witness: the last rule decided (MITM asked for, no keyboard, not both
\* DisplayYesNo).
C5_Witness ==
    /\ MethodApplied
    /\ st["I"].auth_method = "NumericComparaisonJustWork"
    /\ st["I"].initiator.authentication_requirements = "GeneralBondingMitmProtection"
    /\ st["I"].initiator.io_capability = "DisplayYesNo"
    /\ st["I"].responder.io_capability = "DisplayOnly"

LinkKeyTypeApplied == mode = "method" /\ st["I"].pc = "done"

\* C6: link_key_type yields a key type for every method and key variant; it is
\* an Authenticated type exactly when the method is not
\* NumericComparaisonJustWork, and its curve is the variant of the peer key.
C6_LinkKeyType ==
    LinkKeyTypeApplied
        => /\ st["I"].retval \in KeyType
           /\ st["I"].retval \in {"AuthenticatedP192", "AuthenticatedP256"}
                <=> st["I"].auth_method # "NumericComparaisonJustWork"
           /\ st["I"].retval \in {"AuthenticatedP192", "UnauthenticatedP192"}
                <=> st["I"].peer_public_key.variant = "P192"
           /\ st["I"].retval \in {"AuthenticatedP256", "UnauthenticatedP256"}
                <=> st["I"].peer_public_key.variant = "P256"

\* C6 witness: link_key_type was applied to the user-confirm method and a
\* P-256 key.
C6_Witness ==
    /\ LinkKeyTypeApplied
    /\ st["I"].auth_method = "NumericComparaisonUserConfirm"
    /\ st["I"].peer_public_key.variant = "P256"
    /\ st["I"].retval = "AuthenticatedP256"

(***************************************************************************)
(* Properties of the key transfer (SpecKey).                               *)
(***************************************************************************)
\* The packets of opcode `op` that machine m has put on the wire.
SentCount(m, op) ==
    Cardinality({i \in 1..Len(wire) : wire[i].from = m /\ wire[i].pkt.op = op})

\* The frames of a transfer strictly alternate with their acknowledgements:
\* the header first, payloads after it, each followed by its own Accepted.
FramesAcknowledgedInTurn ==
    \A i \in 1..Len(wire) :
        IF i % 2 = 1
        THEN /\ wire[i].from = "I"
             /\ wire[i].pkt.op = IF i = 1 THEN "EncapsulatedHeader"
                                          ELSE "EncapsulatedPayload"
        ELSE /\ wire[i].from = "R"
             /\ wire[i].pkt.op = "Accepted"
             /\ wire[i].pkt.accepted_opcode = wire[i - 1].pkt.op

\* C7: when send_public_key runs against receive_public_key, the sender puts one
\* EncapsulatedHeader and then 3 (P-192) or 4 (P-256) EncapsulatedPayload frames
\* on the wire, each acknowledged by one Accepted before the next is sent, and
\* the receiver returns a key of the same variant with the same bytes in order.
C7_KeyTransfer ==
    mode = "joint"
        => /\ FramesAcknowledgedInTurn
           /\ st["R"].pc # "panic"
           /\ st["I"].pc = "done"
                => /\ SentCount("I", "EncapsulatedHeader") = 1
                   /\ SentCount("I", "EncapsulatedPayload")
                        = IF st["I"].key.variant = "P192" THEN 3 ELSE 4
                   /\ SentCount("R", "Accepted")
                        = 1 + SentCount("I", "EncapsulatedPayload")
           /\ st["R"].pc = "done"
                => /\ st["R"].key.variant = st["I"].key.variant
                   /\ st["R"].key.bytes = st["I"].key.bytes
                   /\ SentCount("I", "EncapsulatedPayload")
                        = IF st["I"].key.variant = "P192" THEN 3 ELSE 4

\* C7 witness: a P-256 key with non-zero, pairwise different bytes was sent and
\* both procedures have returned.
C7_Witness ==
    /\ mode = "joint"
    /\ st["I"].pc = "done"
    /\ st["R"].pc = "done"
    /\ st["I"].key.variant = "P256"
    /\ st["I"].key.bytes[1] = 2
    /\ st["I"].key.bytes[64] = 65
    /\ st["R"].key.bytes[64] = 65

(***************************************************************************)
(* The joint run under fair scheduling: the driver resumes a machine whose *)
(* awaited input is there, and the host answers every request.             *)
(***************************************************************************)
InitJoint == Init /\ mode = "joint"

JointSpec ==
    InitJoint /\ [][Next]_vars /\ WF_vars(InitiatorStep) /\ WF_vars(ResponderStep)

(***************************************************************************)
(* Properties of the pairing coordinator.                                  *)
(***************************************************************************)
\* The positions of HCI event `name` in trace.
EventPositions(trace, name) ==
    {i \in 1..Len(trace) : trace[i].io = "hci" /\ trace[i].msg.ev = name}

\* The positions in trace of sent LMP packets of opcode `op`.
PacketPositions(trace, op) ==
    {i \in 1..Len(trace) : trace[i].io = "lmp" /\ trace[i].msg.op = op}

HciEntry(event) == [io |-> "hci", msg |-> event]

LmpEntry(packet) == [io |-> "lmp", msg |-> packet]

\* The last n entries of trace (all of it when it is shorter).
LastEntries(trace, n) ==
    SubSeq(trace, IF Len(trace) > n THEN Len(trace) - n + 1 ELSE 1, Len(trace))

NegativeReplyCompletes ==
    {"UserConfirmationRequestNegativeReplyComplete",
     "UserPasskeyRequestNegativeReplyComplete",
     "RemoteOobDataRequestNegativeReplyComplete"}

\* The host of machine m answered a user-interaction request negatively.
HostRefused(m) ==
    \E i \in 1..Len(st[m].trace) :
        st[m].trace[i].io = "hci" /\ st[m].trace[i].msg.ev \in NegativeReplyCompletes

\* Machine m returned success, its last event being LinkKeyNotification and
\* SimplePairingComplete{Success} the HCI event before it.
Succeeded(m) ==
    /\ st[m].pc = "done"
    /\ st[m].retval = "Ok"
    /\ \E i \in EventPositions(st[m].trace, "SimplePairingComplete") :
        /\ st[m].trace[i].msg.status = "Success"
        /\ EventPositions(st[m].trace, "LinkKeyNotification") = {Len(st[m].trace)}
        /\ \A j \in i + 1 .. Len(st[m].trace) - 1 : st[m].trace[j].io = "lmp"

BothSucceeded == Succeeded("I") /\ Succeeded("R")

\* C1: in a joint run where no host ever answers a user-interaction request
\* negatively, both machines eventually return success, each having emitted
\* SimplePairingComplete{Success} and then LinkKeyNotification (so the run never
\* stops with a machine waiting), whatever method the capabilities select.
C1_JointRunsSucceed == ([] ~(HostRefused("I") \/ HostRefused("R"))) => <>BothSucceeded

\* C1 witness: a Passkey Entry run, the initiator's host having typed the
\* passkey, has ended in success on both sides.
C1_Witness ==
    /\ mode = "joint"
    /\ BothSucceeded
    /\ st["I"].auth_method = "PasskeyEntry"
    /\ EventPositions(st["I"].trace, "UserPasskeyRequestReplyComplete") # {}

\* C2: a machine emits at most one SimplePairingComplete and at most one
\* LinkKeyNotification; a LinkKeyNotification comes after a
\* SimplePairingComplete{Success} and never in a run that emitted
\* SimplePairingComplete{AuthenticationFailure}.
C2_TerminalEvents ==
    \A m \in Machines :
        LET trace == st[m].trace
            spc == EventPositions(trace, "SimplePairingComplete")
            lkn == EventPositions(trace, "LinkKeyNotification")
        IN  /\ Cardinality(spc) <= 1
            /\ Cardinality(lkn) <= 1
            /\ \A j \in lkn :
                \E i \in spc : i < j /\ trace[i].msg.status = "Success"
            /\ (\E i \in spc : trace[i].msg.status = "AuthenticationFailure")
                    => lkn = {}

\* C2 witness: the initiator, run against an arbitrary peer, has emitted
\* SimplePairingComplete{Success} and then LinkKeyNotification.
C2_Witness ==
    /\ mode = "initiator"
    /\ Succeeded("I")

\* C3 as claimed: a machine that returns failure because send_challenge failed has
\* emitted no SimplePairingComplete and no LinkKeyNotification.
C3_SilentChallengeFailure ==
    \A m \in Machines :
        (st[m].pc = "done" /\ st[m].auth_result = "Err")
            => /\ EventPositions(st[m].trace, "SimplePairingComplete") = {}
               /\ EventPositions(st[m].trace, "LinkKeyNotification") = {}

\* C3 amended: once send_challenge has failed, SimplePairingComplete{Success} is
\* the one SimplePairingComplete the machine emitted and its last HCI event for
\* good: no LinkKeyNotification and no other event follows, and the machine
\* returns failure.
C3_ChallengeFailure ==
    \A m \in Machines :
        st[m].auth_result = "Err"
            => LET trace == st[m].trace
                   spc == EventPositions(trace, "SimplePairingComplete")
               IN  /\ Cardinality(spc) = 1
                   /\ \A i \in spc :
                        /\ trace[i].msg.status = "Success"
                        /\ \A j \in i + 1 .. Len(trace) : trace[j].io = "lmp"
                   /\ EventPositions(trace, "LinkKeyNotification") = {}
                   /\ st[m].pc = "done" => st[m].retval = "Err"

\* C3 witness: the initiator has returned after a failed send_challenge.
C3_Witness ==
    /\ st["I"].auth_result = "Err"
    /\ st["I"].pc = "done"
    /\ st["I"].retval = "Err"

\* C8: in a Passkey Entry run the initiator never sends more than 20
\* SimplePairingConfirm, and has sent exactly 20 (and finished 20 rounds) when
\* it sends DhkeyCheck; the responder has finished exactly 20 receive_commitment
\* rounds when it waits at the Stage-2 gate.
C8_TwentyRounds ==
    /\ st["I"].auth_method = "PasskeyEntry"
        => /\ SentCount("I", "SimplePairingConfirm") <= 20
           /\ SentCount("I", "DhkeyCheck") > 0
                => /\ SentCount("I", "SimplePairingConfirm") = 20
                   /\ SentCount("I", "SimplePairingNumber") = 20
                   /\ st["I"].round = 20
                   /\ \A i \in PacketPositions(st["I"].trace, "SimplePairingConfirm") :
                        \A j \in PacketPositions(st["I"].trace, "DhkeyCheck") : i < j
    /\ st["R"].auth_method = "PasskeyEntry"
        => /\ SentCount("R", "SimplePairingConfirm") <= 20
           /\ st["R"].pc = "respond.dhkey_check"
                => /\ SentCount("R", "SimplePairingConfirm") = 20
                   /\ SentCount("R", "SimplePairingNumber") = 20
                   /\ st["R"].round = 20

\* C8 witness: in a joint Passkey Entry run the initiator, whose host typed the
\* passkey, has sent DhkeyCheck and the responder waits at the gate.
C8_Witness ==
    /\ mode = "joint"
    /\ st["I"].auth_method = "PasskeyEntry"
    /\ EventPositions(st["I"].trace, "UserPasskeyRequestReplyComplete") # {}
    /\ st["I"].pc = "initiate.dhkey_check.accepted"
    /\ st["R"].pc = "respond.dhkey_check"

\* C9: once the initiator's host has answered a user-interaction request
\* negatively, the initiator has sent NumericComparaisonFailed, then emitted
\* SimplePairingComplete{AuthenticationFailure}, and returned failure; it sends
\* no DhkeyCheck and emits no LinkKeyNotification.
C9_InitiatorStage1Failure ==
    HostRefused("I")
        => LET trace == st["I"].trace
           IN  /\ st["I"].pc = "done"
               /\ st["I"].retval = "Err"
               /\ Len(trace) >= 3
               /\ trace[Len(trace) - 2].io = "hci"
               /\ trace[Len(trace) - 2].msg.ev \in NegativeReplyCompletes
               /\ LastEntries(trace, 2)
                    = <<LmpEntry(NumericComparaisonFailed),
                        HciEntry(SimplePairingComplete("AuthenticationFailure"))>>
               /\ PacketPositions(trace, "DhkeyCheck") = {}
               /\ EventPositions(trace, "LinkKeyNotification") = {}

\* C9 witness: the initiator's host refused the user confirmation.
C9_Witness ==
    /\ EventPositions(st["I"].trace, "UserConfirmationRequestNegativeReplyComplete") # {}
    /\ st["I"].pc = "done"

\* C10: when the responder's host refused the user confirmation and the packet
\* read at the gate is DhkeyCheck, the responder has sent
\* NotAccepted{DhkeyCheck, AuthenticationFailure}, then emitted
\* SimplePairingComplete{AuthenticationFailure}, and returned failure; it sends
\* no Accepted{DhkeyCheck} and no DhkeyCheck and emits no LinkKeyNotification.
C10_ResponderRefusal ==
    (/\ EventPositions(st["R"].trace, "UserConfirmationRequestNegativeReplyComplete") # {}
     /\ st["R"].rx.op = "DhkeyCheck")
        => LET trace == st["R"].trace
           IN  /\ st["R"].pc = "done"
               /\ st["R"].retval = "Err"
               /\ LastEntries(trace, 2)
                    = <<LmpEntry([op |-> "NotAccepted", transaction_id |-> 0,
                                  not_accepted_opcode |-> "DhkeyCheck",
                                  error_code |-> 5]),
                        HciEntry(SimplePairingComplete("AuthenticationFailure"))>>
               /\ PacketPositions(trace, "DhkeyCheck") = {}
               /\ \A i \in PacketPositions(trace, "Accepted") :
                    trace[i].msg.accepted_opcode # "DhkeyCheck"
               /\ EventPositions(trace, "LinkKeyNotification") = {}

\* C10 witness: in a joint run the initiator's host confirmed, the responder's
\* host refused, and the responder has read the initiator's DhkeyCheck.
C10_Witness ==
    /\ mode = "joint"
    /\ EventPositions(st["I"].trace, "UserConfirmationRequestReplyComplete") # {}
    /\ EventPositions(st["R"].trace, "UserConfirmationRequestNegativeReplyComplete") # {}
    /\ st["R"].rx.op = "DhkeyCheck"

\* C11: when the packet read at the responder's gate is NumericComparaisonFailed,
\* the responder has emitted SimplePairingComplete{AuthenticationFailure} as its
\* last output and returned failure; it sent no packet after reading the gate
\* (no NotAccepted, no Accepted{DhkeyCheck}, no DhkeyCheck), whether or not its
\* own host confirmed.
C11_ResponderPeerFailure ==
    st["R"].rx.op = "NumericComparaisonFailed"
        => LET trace == st["R"].trace
           IN  /\ st["R"].pc = "done"
               /\ st["R"].retval = "Err"
               /\ LastEntries(trace, 1)
                    = <<HciEntry(SimplePairingComplete("AuthenticationFailure"))>>
               /\ Cardinality(EventPositions(trace, "SimplePairingComplete")) = 1
               /\ PacketPositions(trace, "NotAccepted") = {}
               /\ PacketPositions(trace, "DhkeyCheck") = {}
               /\ \A i \in PacketPositions(trace, "Accepted") :
                    trace[i].msg.accepted_opcode # "DhkeyCheck"
               /\ EventPositions(trace, "LinkKeyNotification") = {}

\* C11 witness: in a joint run the responder's host had refused the user
\* confirmation when the initiator's NumericComparaisonFailed was read at the gate.
C11_Witness ==
    /\ mode = "joint"
    /\ st["R"].rx.op = "NumericComparaisonFailed"
    /\ EventPositions(st["R"].trace, "UserConfirmationRequestNegativeReplyComplete") # {}

\* C11 second case: the responder's host had confirmed.
C11_WitnessConfirmed ==
    /\ mode = "joint"
    /\ st["R"].rx.op = "NumericComparaisonFailed"
    /\ EventPositions(st["R"].trace, "UserConfirmationRequestReplyComplete") # {}

\* C12: when the answer to the initiator's DhkeyCheck is NotAccepted, the
\* initiator has emitted SimplePairingComplete{AuthenticationFailure} as its last
\* output and returned failure: it did not acknowledge a DhkeyCheck of the peer,
\* sent no challenge and emitted no LinkKeyNotification.
C12_InitiatorDhkeyRefused ==
    (/\ st["I"].rx.op = "NotAccepted"
     /\ st["I"].rx.not_accepted_opcode = "DhkeyCheck"
     /\ st["I"].auth_result = "None")
        => LET trace == st["I"].trace
           IN  /\ st["I"].pc = "done"
               /\ st["I"].retval = "Err"
               /\ LastEntries(trace, 2)
                    = <<LmpEntry(DhkeyCheck(Zeros(16))),
                        HciEntry(SimplePairingComplete("AuthenticationFailure"))>>
               /\ Cardinality(EventPositions(trace, "SimplePairingComplete")) = 1
               /\ PacketPositions(trace, "AuRand") = {}
               /\ \A i \in PacketPositions(trace, "Accepted") :
                    trace[i].msg.accepted_opcode # "DhkeyCheck"
               /\ EventPositions(trace, "LinkKeyNotification") = {}

\* C12 witness: in a joint run the responder, whose host refused the user
\* confirmation, answered the initiator's DhkeyCheck with NotAccepted.
C12_Witness ==
    /\ mode = "joint"
    /\ st["I"].rx.op = "NotAccepted"
    /\ st["I"].rx.not_accepted_opcode = "DhkeyCheck"
    /\ st["I"].pc = "done"
    /\ st["R"].pc = "done"

\* Machine m returned failure.
Failed(m) == st[m].pc = "done" /\ st[m].retval = "Err"

\* The responder read NumericComparaisonFailed at its gate, emitted
\* SimplePairingComplete{AuthenticationFailure} and returned failure.
ResponderSawFailure ==
    /\ Failed("R")
    /\ st["R"].rx.op = "NumericComparaisonFailed"
    /\ LastEntries(st["R"].trace, 1)
        = <<HciEntry(SimplePairingComplete("AuthenticationFailure"))>>

\* C13 as claimed: in a joint run, once the initiator's host has answered a
\* user-interaction request negatively, both machines eventually return failure,
\* the responder having read the initiator's NumericComparaisonFailed at its gate.
C13_RefusalEndsBoth == HostRefused("I") ~> (Failed("I") /\ ResponderSawFailure)

\* The case in which C13 does hold: the refusal of a Numeric Comparison user
\* confirmation, which comes after the commitment round.
C13_ConfirmationRefusalEndsBoth ==
    (EventPositions(st["I"].trace, "UserConfirmationRequestNegativeReplyComplete") # {})
        ~> (Failed("I") /\ ResponderSawFailure)

\* The state the claim does not allow for: the initiator has returned after its
\* host refused the passkey, its NumericComparaisonFailed is the next packet for
\* the responder, and the responder awaits a SimplePairingConfirm.
C13_ResponderStuck ==
    /\ mode = "joint"
    /\ EventPositions(st["I"].trace, "UserPasskeyRequestNegativeReplyComplete") # {}
    /\ Failed("I")
    /\ st["R"].pc = "receive_commitment.confirm"
    /\ chan["R"] # <<>>
    /\ Head(chan["R"]).op = "NumericComparaisonFailed"
    /\ ~ ENABLED ResponderStep

(***************************************************************************)
(* Properties of the commitment rounds.                                    *)
(***************************************************************************)
\* A frame of a commitment round.
IsCommitmentFrame(w) ==
    \/ w.pkt.op \in {"SimplePairingConfirm", "SimplePairingNumber"}
    \/ w.pkt.op = "Accepted" /\ w.pkt.accepted_opcode = "SimplePairingNumber"

\* The frames of the commitment rounds put on the wire so far: who sent what.
CommitmentFrames ==
    LET frames == SelectSeq(wire, IsCommitmentFrame)
    IN  [i \in 1..Len(frames) |-> <<frames[i].from, frames[i].pkt.op>>]

\* The frames of one round as the claim orders them.
RoundFrames(skip_first) ==
    (IF skip_first THEN <<>> ELSE << <<"I", "SimplePairingConfirm">> >>)
    \o << <<"R", "SimplePairingConfirm">>,
          <<"I", "SimplePairingNumber">>,
          <<"R", "Accepted">>,
          <<"R", "SimplePairingNumber">>,
          <<"I", "Accepted">> >>

\* Whether `frames` is the start of rounds of that shape, one after the other.
StartOfRounds(frames, skip_first) ==
    LET round == RoundFrames(skip_first)
    IN  \A i \in 1..Len(frames) : frames[i] = round[((i - 1) % Len(round)) + 1]

\* The initiator is inside send_commitment, the responder inside receive_commitment.
InSendCommitment ==
    st["I"].pc \in {"send_commitment.confirm", "send_commitment.accepted",
                    "send_commitment.number"}

InReceiveCommitment ==
    st["R"].pc \in {"receive_commitment.confirm", "receive_commitment.number",
                    "receive_commitment.accepted"}

\* C14: in a joint run the frames of the commitment rounds come in the order
\* [Confirm I->R unless skip_first,] Confirm R->I, Number I->R, Accepted R->I,
\* Number R->I, Accepted I->R, round after round, and whenever send_commitment
\* and receive_commitment are both running, both eventually return.
C14_CommitmentRound ==
    /\ [](\E skip_first \in BOOLEAN : StartOfRounds(CommitmentFrames, skip_first))
    /\ (InSendCommitment /\ InReceiveCommitment)
            ~> (~InSendCommitment /\ ~InReceiveCommitment)

\* C14 witness: an Out-Of-Band run (skip_first false) whose one round is over:
\* its six frames are on the wire and both routines have returned.
C14_Witness ==
    /\ st["I"].auth_method = "OutOfBand"
    /\ CommitmentFrames = RoundFrames(FALSE)
    /\ st["I"].pc = "initiate.dhkey_check.accepted"
    /\ st["R"].pc = "respond.dhkey_check"

\* C14 second case: a Numeric Comparison round (skip_first true) is over.
C14_WitnessSkipFirst ==
    /\ st["I"].auth_method = "NumericComparaisonUserConfirm"
    /\ CommitmentFrames = RoundFrames(TRUE)
    /\ st["I"].pc = "user_confirmation_request.reply"
    /\ st["R"].pc = "user_confirmation_request.reply"

NumericComparison == {"NumericComparaisonJustWork", "NumericComparaisonUserConfirm"}

\* What the frames of a run show of skip_first.  The initiator: with skip_first
\* it sends no SimplePairingConfirm at all, without it one SimplePairingConfirm
\* ahead of each SimplePairingNumber.  The responder: with skip_first its
\* SimplePairingConfirm answers no SimplePairingConfirm of the peer, without it
\* the packet read last before each SimplePairingConfirm is the peer's.
InitiatorSkipsFirst(skip_first) ==
    LET confirms == Cardinality(PacketPositions(st["I"].trace, "SimplePairingConfirm"))
        numbers == Cardinality(PacketPositions(st["I"].trace, "SimplePairingNumber"))
    IN  IF skip_first
        THEN confirms = 0
        ELSE /\ numbers <= confirms
             /\ confirms <= numbers + 1
             /\ InSendCommitment => confirms > 0

ResponderSkipsFirst(skip_first) ==
    /\ skip_first => st["R"].pc # "receive_commitment.confirm"
    /\ (/\ st["R"].trace # <<>>
        /\ st["R"].trace[Len(st["R"].trace)] = LmpEntry(SimplePairingConfirm(Zeros(16))))
            => (skip_first <=> st["R"].rx.op # "SimplePairingConfirm")

\* In a joint run the frames on the wire are rounds of that shape.
RoundsSkipFirst(skip_first) ==
    mode = "joint" => StartOfRounds(CommitmentFrames, skip_first)

\* C15 as claimed: the initial SimplePairingConfirm is suppressed under Numeric
\* Comparison and in the first round of Out-Of-Band, and sent in every round of
\* Passkey Entry.
C15_SkipFirstAsClaimed ==
    /\ st["I"].auth_method \in NumericComparison \cup {"OutOfBand"}
        => InitiatorSkipsFirst(TRUE) /\ RoundsSkipFirst(TRUE)
    /\ st["R"].auth_method \in NumericComparison \cup {"OutOfBand"}
        => ResponderSkipsFirst(TRUE)
    /\ st["I"].auth_method = "PasskeyEntry"
        => InitiatorSkipsFirst(FALSE) /\ RoundsSkipFirst(FALSE)
    /\ st["R"].auth_method = "PasskeyEntry" => ResponderSkipsFirst(FALSE)

\* C15 amended: the initial SimplePairingConfirm is suppressed under Numeric
\* Comparison only; it is sent in the one round of Out-Of-Band and in every
\* round of Passkey Entry.
C15_SkipFirst ==
    /\ st["I"].auth_method \in NumericComparison
        => InitiatorSkipsFirst(TRUE) /\ RoundsSkipFirst(TRUE)
    /\ st["R"].auth_method \in NumericComparison => ResponderSkipsFirst(TRUE)
    /\ st["I"].auth_method \in {"OutOfBand", "PasskeyEntry"}
        => InitiatorSkipsFirst(FALSE) /\ RoundsSkipFirst(FALSE)
    /\ st["R"].auth_method \in {"OutOfBand", "PasskeyEntry"}
        => ResponderSkipsFirst(FALSE)

\* C15 witness: in a joint Out-Of-Band run the initiator has sent its
\* SimplePairingConfirm and the responder, having read it, has sent its own.
C15_Witness ==
    /\ mode = "joint"
    /\ st["I"].auth_method = "OutOfBand"
    /\ CommitmentFrames = << <<"I", "SimplePairingConfirm">>, <<"R", "SimplePairingConfirm">> >>
    /\ st["R"].rx.op = "SimplePairingConfirm"

\* C16: when initiate and respond run against each other, every
\* SimplePairingConfirm sent carries the 16 zero bytes its receiver compares it
\* with, and no machine panics: the todo!() of send_commitment and
\* receive_commitment is not reached.
C16_NoCommitmentMismatch ==
    mode = "joint"
        => /\ \A i \in 1..Len(wire) :
                wire[i].pkt.op = "SimplePairingConfirm"
                    => wire[i].pkt.commitment_value = Zeros(16)
           /\ \A m \in Machines : st[m].pc # "panic"

\* C16 witness: in a joint Passkey Entry run each machine has compared a
\* SimplePairingConfirm of the other and gone on.
C16_Witness ==
    /\ mode = "joint"
    /\ st["I"].auth_method = "PasskeyEntry"
    /\ st["R"].pc = "receive_commitment.number"
    /\ st["R"].rx.op = "SimplePairingConfirm"
    /\ st["I"].pc = "send_commitment.accepted"
    /\ st["I"].rx.op = "SimplePairingConfirm"

\* The branch itself is there: against a peer that sends another commitment
\* value the initiator panics.
C16_MismatchPanics ==
    /\ mode = "initiator"
    /\ st["I"].pc = "panic"
    /\ st["I"].rx = SimplePairingConfirm(NonZeroCommitment)

(***************************************************************************)
(* Properties of the three HCI round trips.                                *)
(***************************************************************************)
\* A round trip: its request event, its two completion events, and the place
\* where the routine awaits the host's command.
ConfirmationTrip ==
    [request |-> "UserConfirmationRequest",
     positive |-> "UserConfirmationRequestReplyComplete",
     negative |-> "UserConfirmationRequestNegativeReplyComplete",
     pc |-> "user_confirmation_request.reply"]

PasskeyTrip ==
    [request |-> "UserPasskeyRequest",
     positive |-> "UserPasskeyRequestReplyComplete",
     negative |-> "UserPasskeyRequestNegativeReplyComplete",
     pc |-> "user_passkey_request.reply"]

OobTrip ==
    [request |-> "RemoteOobDataRequest",
     positive |-> "RemoteOobDataRequestReplyComplete",
     negative |-> "RemoteOobDataRequestNegativeReplyComplete",
     pc |-> "remote_oob_data_request.reply"]

KeypressComplete == HciEntry(Event("SendKeypressNotificationComplete"))

\* Machine m runs `trip` at most once; while it awaits the command the request
\* is its last output, and once it has returned one completion event follows
\* the request.  `keypresses` says whether completions of
\* SendKeypressNotification may stand between the two.
RoundTrip(m, trip, keypresses) ==
    LET trace == st[m].trace
        request == EventPositions(trace, trip.request)
        complete == EventPositions(trace, trip.positive)
                        \cup EventPositions(trace, trip.negative)
        Between(i, j) ==
            \A k \in i + 1 .. j - 1 : keypresses /\ trace[k] = KeypressComplete
    IN  /\ Cardinality(request) <= 1
        /\ Cardinality(complete) <= 1
        /\ complete # {} => request # {}
        /\ st[m].pc = trip.pc
            => /\ complete = {}
               /\ \E i \in request : Between(i, Len(trace) + 1)
        /\ (request # {} /\ st[m].pc # trip.pc)
            => \E i \in request : \E j \in complete : i < j /\ Between(i, j)

\* One command of the host is consumed per resumption.  A step of machine m
\* that starts where `trip` awaits its command ends the routine with the
\* completion event of that command; with `keypresses`, it may instead add the
\* completion of a SendKeypressNotification and keep waiting.
OneCommand(m, trip, keypresses) ==
    (st[m].pc = trip.pc /\ st'[m] # st[m])
        => \/ /\ st'[m].pc # trip.pc
              /\ Len(st'[m].trace) > Len(st[m].trace)
              /\ st'[m].trace[Len(st[m].trace) + 1].io = "hci"
              /\ st'[m].trace[Len(st[m].trace) + 1].msg.ev
                    \in {trip.positive, trip.negative}
           \/ /\ keypresses
              /\ st'[m].pc = trip.pc
              /\ st'[m].trace = Append(st[m].trace, KeypressComplete)

\* What a routine returned, as far as its caller shows it: the initiator sends
\* NumericComparaisonFailed right after a negative completion and never after a
\* positive one; the responder's flag is the failure of its user confirmation.
TripResults ==
    /\ \A i \in 1..Len(st["I"].trace) :
        /\ st["I"].trace[i].io = "hci"
                /\ st["I"].trace[i].msg.ev \in NegativeReplyCompletes
            => /\ i < Len(st["I"].trace)
               /\ st["I"].trace[i + 1] = LmpEntry(NumericComparaisonFailed)
        /\ st["I"].trace[i].io = "hci"
                /\ st["I"].trace[i].msg.ev
                    \in {ConfirmationTrip.positive, PasskeyTrip.positive, OobTrip.positive}
            => /\ i < Len(st["I"].trace)
               /\ st["I"].trace[i + 1] # LmpEntry(NumericComparaisonFailed)
               /\ PacketPositions(st["I"].trace, "NumericComparaisonFailed") = {}
    /\ st["R"].negative_user_confirmation
        <=> EventPositions(st["R"].trace, ConfirmationTrip.negative) # {}

\* C17 as claimed: each of the three routines emits one request event, consumes
\* one command and emits one completion event before it returns.
C17_UniformRoundTrip ==
    \A m \in Machines :
        \A trip \in {ConfirmationTrip, PasskeyTrip, OobTrip} : RoundTrip(m, trip, FALSE)

\* C17 amended: user_confirmation_request and remote_oob_data_request emit one
\* request event, consume one command and emit its completion event;
\* user_passkey_request emits one request event, completes each
\* SendKeypressNotification it is given, and returns with the completion of the
\* one reply; each returns success on the positive and failure on the negative
\* reply.
C17_RoundTrips ==
    /\ [](\A m \in Machines :
            /\ RoundTrip(m, ConfirmationTrip, FALSE)
            /\ RoundTrip(m, OobTrip, FALSE)
            /\ RoundTrip(m, PasskeyTrip, TRUE))
    /\ []TripResults
    /\ [][\A m \in Machines :
            /\ OneCommand(m, ConfirmationTrip, FALSE)
            /\ OneCommand(m, OobTrip, FALSE)
            /\ OneCommand(m, PasskeyTrip, TRUE)]_vars

\* C17 witness: the responder's user_passkey_request has returned after a
\* keypress and the positive reply.
C17_Witness ==
    /\ EventPositions(st["R"].trace, "UserPasskeyRequest") # {}
    /\ EventPositions(st["R"].trace, "SendKeypressNotificationComplete") # {}
    /\ EventPositions(st["R"].trace, "UserPasskeyRequestReplyComplete") # {}

\* What machine m added to its trace in this step.
Added(m) == SubSeq(st'[m].trace, Len(st[m].trace) + 1, Len(st'[m].trace))

\* A step of machine m inside user_passkey_request is one of three: a keypress
\* is completed, nothing else changes and no packet is sent; the reply is
\* completed and the routine returns; the negative reply is completed and the
\* routine returns (the initiator then reports the failure to its peer).
PasskeyStep(m) ==
    (st[m].pc = PasskeyTrip.pc /\ st'[m] # st[m])
        => \/ /\ st'[m] = [st[m] EXCEPT !.trace = Append(@, KeypressComplete)]
              /\ wire' = wire
              /\ chan' = chan
           \/ /\ st'[m].pc # PasskeyTrip.pc
              /\ Added(m) # <<>>
              /\ Added(m)[1] = HciEntry(Event(PasskeyTrip.positive))
              /\ \A i \in 1..Len(Added(m)) :
                    Added(m)[i] # LmpEntry(NumericComparaisonFailed)
           \/ /\ st'[m].pc # PasskeyTrip.pc
              /\ Added(m) # <<>>
              /\ Added(m)[1] = HciEntry(Event(PasskeyTrip.negative))
              /\ m = "I" => /\ Len(Added(m)) > 1
                            /\ Added(m)[2] = LmpEntry(NumericComparaisonFailed)
                            /\ st'[m].retval = "Err"

\* user_passkey_request has returned exactly when the completion of a reply or
\* of a negative reply is in the trace, and every keypress completion stands
\* between the request and that completion.
PasskeyReturned(m) ==
    LET trace == st[m].trace
        request == EventPositions(trace, PasskeyTrip.request)
        complete == EventPositions(trace, PasskeyTrip.positive)
                        \cup EventPositions(trace, PasskeyTrip.negative)
    IN  /\ (request # {} /\ st[m].pc # PasskeyTrip.pc) <=> complete # {}
        /\ \A k \in EventPositions(trace, "SendKeypressNotificationComplete") :
            /\ \E i \in request : i < k
            /\ \A j \in complete : k < j

\* C18: user_passkey_request completes each SendKeypressNotification with one
\* SendKeypressNotificationComplete, sends no packet for it and keeps waiting;
\* it returns with, and only with, a UserPasskeyRequestReply (success) or a
\* UserPasskeyRequestNegativeReply (failure).
C18_KeypressLoop ==
    /\ [][\A m \in Machines : PasskeyStep(m)]_vars
    /\ [](\A m \in Machines : PasskeyReturned(m))

\* C18 witness: the initiator has completed a keypress and still waits for the
\* passkey.
C18_Witness ==
    /\ st["I"].pc = PasskeyTrip.pc
    /\ st["I"].trace[Len(st["I"].trace)] = KeypressComplete

\* C18 second case: after a keypress the reply made the routine return.
C18_WitnessReturned ==
    /\ EventPositions(st["I"].trace, "SendKeypressNotificationComplete") # {}
    /\ EventPositions(st["I"].trace, PasskeyTrip.positive) # {}

\* The responder's host refused the passkey or the OOB data.
ResponderRefusalSwallowed ==
    EventPositions(st["R"].trace, PasskeyTrip.negative)
        \cup EventPositions(st["R"].trace, OobTrip.negative) # {}

\* C19: a negative reply to the responder's passkey or OOB request changes
\* nothing but the completion event: the flag stays false, the responder runs
\* all its commitment rounds before the gate, answers a DhkeyCheck with Accepted
\* and its own DhkeyCheck, never sends NotAccepted, and fails only when the peer
\* or the challenge fails; the flag is set by a refused Numeric Comparison
\* user confirmation and by nothing else.
C19_RefusalSwallowed ==
    LET trace == st["R"].trace
    IN  /\ st["R"].negative_user_confirmation
            <=> (/\ st["R"].auth_method \in NumericComparison
                 /\ EventPositions(trace, ConfirmationTrip.negative) # {})
        /\ ResponderRefusalSwallowed
            => /\ PacketPositions(trace, "NotAccepted") = {}
               /\ st["R"].pc = "respond.dhkey_check"
                    => Cardinality(PacketPositions(trace, "SimplePairingConfirm"))
                        = IF st["R"].auth_method = "PasskeyEntry" THEN 20 ELSE 1
               /\ st["R"].rx.op = "DhkeyCheck"
                    => /\ st["R"].pc = "respond.dhkey_check.accepted"
                       /\ LastEntries(trace, 2)
                            = <<LmpEntry(Accepted(0, "DhkeyCheck")),
                                LmpEntry(DhkeyCheck(Zeros(16)))>>
               /\ Failed("R")
                    => \/ st["R"].rx.op = "NumericComparaisonFailed"
                       \/ st["R"].auth_result = "Err"

\* C19 witness: in a joint run the responder, whose host refused the passkey,
\* has finished with SimplePairingComplete{Success} and LinkKeyNotification.
C19_Witness ==
    /\ mode = "joint"
    /\ EventPositions(st["R"].trace, PasskeyTrip.negative) # {}
    /\ Succeeded("R")

\* C19 second case: the same after a refused OOB request.
C19_WitnessOob ==
    /\ mode = "joint"
    /\ EventPositions(st["R"].trace, OobTrip.negative) # {}
    /\ Succeeded("R")

(***************************************************************************)
(* Properties of the key exchange inside the pairing.                      *)
(***************************************************************************)
\* The frames of its own key that machine m has sent, and the
\* acknowledgements it has sent for frames of the peer's key.
KeyFramePositions(m) ==
    PacketPositions(st[m].trace, "EncapsulatedHeader")
        \cup PacketPositions(st[m].trace, "EncapsulatedPayload")

KeyAckPositions(m) ==
    {i \in PacketPositions(st[m].trace, "Accepted") :
        st[m].trace[i].msg.accepted_opcode
            \in {"EncapsulatedHeader", "EncapsulatedPayload"}}

\* The payload_length of the headers machine m has sent.
SentKeySizes(m) ==
    {st[m].trace[i].msg.payload_length :
        i \in PacketPositions(st[m].trace, "EncapsulatedHeader")}

\* C20: the initiator sends its whole key before it acknowledges any frame of
\* the peer's, and its key is P-256 exactly when SecureConnectionsHostSupport is
\* supported on both sides; the responder acknowledges the whole peer key first
\* and then sends a key of the size it received; in a joint run the two keys
\* have the same variant.
C20_KeyExchange ==
    /\ \A i \in KeyFramePositions("I") : \A j \in KeyAckPositions("I") : i < j
    /\ KeyAckPositions("I") # {}
        => Cardinality(KeyFramePositions("I")) = 1 + (IF sc THEN 4 ELSE 3)
    /\ SentKeySizes("I") \subseteq {IF sc THEN 64 ELSE 48}
    /\ \A i \in KeyAckPositions("R") : \A j \in KeyFramePositions("R") : i < j
    /\ KeyFramePositions("R") # {}
        => /\ st["R"].peer_public_key # NoKey
           /\ SentKeySizes("R") = {Len(st["R"].peer_public_key.bytes)}
           /\ Cardinality(KeyAckPositions("R"))
                = 1 + (IF st["R"].peer_public_key.variant = "P256" THEN 4 ELSE 3)
    /\ (mode = "joint" /\ st["I"].peer_public_key # NoKey)
        => /\ st["I"].peer_public_key.variant = st["R"].peer_public_key.variant
           /\ st["I"].peer_public_key.variant = IF sc THEN "P256" ELSE "P192"

\* C20 witness: a joint run with Secure Connections on both sides in which
\* both machines hold the other's P-256 key.
C20_Witness ==
    /\ mode = "joint"
    /\ sc
    /\ st["I"].peer_public_key # NoKey
    /\ st["I"].peer_public_key.variant = "P256"
    /\ st["R"].peer_public_key.variant = "P256"
    /\ SentKeySizes("R") = {64}

\* C20 second case: the responder, against a peer that sends a P-192 key, has
\* answered with a P-192 key whatever the feature pages say.
C20_WitnessResponderFollows ==
    /\ mode = "responder"
    /\ sc
    /\ SentKeySizes("R") = {48}

(***************************************************************************)
(* Properties of the challenge/response step.                              *)
(***************************************************************************)
\* The positions of SimplePairingComplete{Success} in the trace of machine m.
SuccessPositions(m) ==
    {i \in EventPositions(st[m].trace, "SimplePairingComplete") :
        st[m].trace[i].msg.status = "Success"}

\* C21: after SimplePairingComplete{Success} the initiator sends its challenge
\* (send_challenge) before it answers the peer's (receive_challenge), the
\* responder answers the peer's challenge before it sends its own, and a
\* LinkKeyNotification comes only after both steps: the challenge was sent and
\* answered with success and the peer's challenge was answered.
C21_ChallengeOrder ==
    /\ \A m \in Machines :
        LET trace == st[m].trace
            challenge == PacketPositions(trace, "AuRand")
            response == PacketPositions(trace, "Sres")
        IN  /\ Cardinality(challenge) <= 1
            /\ Cardinality(response) <= 1
            /\ \A i \in challenge \cup response : \E k \in SuccessPositions(m) : k < i
            /\ \A l \in EventPositions(trace, "LinkKeyNotification") :
                /\ \E i \in challenge : i < l
                /\ \E j \in response : j < l
                /\ st[m].auth_result = "Ok"
    /\ LET trace == st["I"].trace
       IN  /\ \A k \in SuccessPositions("I") :
                k < Len(trace) /\ trace[k + 1] = LmpEntry(AuRand)
           /\ \A j \in PacketPositions(trace, "Sres") :
                /\ \E i \in PacketPositions(trace, "AuRand") : i < j
                /\ st["I"].auth_result # "None"
    /\ LET trace == st["R"].trace
       IN  /\ \A i \in PacketPositions(trace, "AuRand") :
                i > 1 /\ trace[i - 1] = LmpEntry(Sres)
           /\ (SuccessPositions("R") # {} /\ PacketPositions(trace, "Sres") = {})
                => st["R"].pc = "receive_challenge.au_rand"
           /\ st["R"].auth_result # "None" => PacketPositions(trace, "AuRand") # {}

\* C21 witness: in a joint run both machines have gone through both challenge
\* steps and emitted LinkKeyNotification.
C21_Witness ==
    /\ mode = "joint"
    /\ \A m \in Machines :
        /\ EventPositions(st[m].trace, "LinkKeyNotification") # {}
        /\ PacketPositions(st[m].trace, "AuRand") # {}
        /\ PacketPositions(st[m].trace, "Sres") # {}

(***************************************************************************)
(* Properties of the two machines' views of one pairing.                   *)
(***************************************************************************)
\* The key_type values of the LinkKeyNotification events of machine m.
NotifiedKeyTypes(m) ==
    {st[m].trace[i].msg.key_type :
        i \in EventPositions(st[m].trace, "LinkKeyNotification")}

\* C22: in a joint run, once both machines have computed their method, they
\* hold the same two AuthenticationParams (each side's own reply and the
\* other's as decoded from the packet) and the same method; when both have
\* emitted LinkKeyNotification the two events carry the same key_type.
C22_SameView ==
    mode = "joint"
        => /\ (st["I"].auth_method # "None" /\ st["R"].auth_method # "None")
                => /\ st["I"].initiator = st["R"].initiator
                   /\ st["I"].responder = st["R"].responder
                   /\ st["I"].auth_method = st["R"].auth_method
           /\ (NotifiedKeyTypes("I") # {} /\ NotifiedKeyTypes("R") # {})
                => /\ st["I"].auth_method = st["R"].auth_method
                   /\ NotifiedKeyTypes("I") = NotifiedKeyTypes("R")
                   /\ Cardinality(NotifiedKeyTypes("I")) = 1

\* C22 witness: a joint run whose two sides gave different capabilities has
\* ended with both notifications carrying an authenticated P-256 key.
C22_Witness ==
    /\ mode = "joint"
    /\ st["I"].initiator # st["I"].responder
    /\ NotifiedKeyTypes("I") = {"AuthenticatedP256"}
    /\ NotifiedKeyTypes("R") = {"AuthenticatedP256"}

(***************************************************************************)
(* Properties of the responder's Stage 2.                                  *)
(***************************************************************************)
\* The answer the responder has just read to its own DhkeyCheck is NotAccepted.
ResponderDhkeyRefused ==
    /\ st["R"].rx.op = "NotAccepted"
    /\ st["R"].rx.not_accepted_opcode = "DhkeyCheck"
    /\ st["R"].auth_result = "None"

\* C23 as claimed: the responder emits SimplePairingComplete{Success} only when
\* its DhkeyCheck was answered with Accepted; when the answer is NotAccepted it
\* emits neither SimplePairingComplete{Success} nor LinkKeyNotification.
C23_SuccessOnlyIfAccepted ==
    ResponderDhkeyRefused
        => /\ SuccessPositions("R") = {}
           /\ EventPositions(st["R"].trace, "LinkKeyNotification") = {}

\* What the responder does instead: whatever the answer, it emits
\* SimplePairingComplete{Success} and goes on to await the peer's challenge.
C23_AnswerIgnored ==
    (st["R"].pc = "receive_challenge.au_rand" /\ PacketPositions(st["R"].trace, "Sres") = {})
        => /\ st["R"].rx.op \in {"Accepted", "NotAccepted"}
           /\ LastEntries(st["R"].trace, 3)
                = <<LmpEntry(Accepted(0, "DhkeyCheck")),
                    LmpEntry(DhkeyCheck(Zeros(16))),
                    HciEntry(SimplePairingComplete("Success"))>>

\* The state in question: the answer was NotAccepted and
\* SimplePairingComplete{Success} is the responder's last event.
C23_SuccessAfterRefusal ==
    /\ ResponderDhkeyRefused
    /\ SuccessPositions("R") = {Len(st["R"].trace)}

(***************************************************************************)
(* Agreement of the two machines on the outcome.                           *)
(***************************************************************************)
FailurePositions(m) ==
    {i \in EventPositions(st[m].trace, "SimplePairingComplete") :
        st[m].trace[i].msg.status = "AuthenticationFailure"}

\* C24: in a joint run of initiate against respond it never happens that one
\* machine has emitted SimplePairingComplete{Success} while the other has
\* emitted SimplePairingComplete{AuthenticationFailure}.
C24_NoSplitOutcome ==
    mode = "joint"
        => /\ ~(SuccessPositions("I") # {} /\ FailurePositions("R") # {})
           /\ ~(SuccessPositions("R") # {} /\ FailurePositions("I") # {})

\* A joint run in which the responder's host refused the confirmation: the
\* responder has answered NotAccepted and both machines have emitted
\* SimplePairingComplete{AuthenticationFailure}.
C24_Witness ==
    /\ mode = "joint"
    /\ st["R"].negative_user_confirmation
    /\ st["I"].rx = NotAccepted("DhkeyCheck", AuthenticationFailureCode)
    /\ FailurePositions("I") # {}
    /\ FailurePositions("R") # {}

\* A joint run in which both machines have emitted SimplePairingComplete{Success}.
C24_WitnessSuccess ==
    /\ mode = "joint"
    /\ SuccessPositions("I") # {}
    /\ SuccessPositions("R") # {}

====
